---- MODULE Spec2Model ----
(***************************************************************************)
(* amplifier-core: the hook registry (crates/amplifier-core/src/hooks.rs), *)
(* the cancellation token (crates/amplifier-core/src/cancellation.rs) and  *)
(* the session (crates/amplifier-core/src/session.rs, with the session of  *)
(* the Python binding, bindings/python/src/lib.rs).                        *)
(*                                                                         *)
(* DispatchSpec, OrderSpec : register / unregister / set_default_fields /  *)
(*              emit, with emit split at its suspension points (one step   *)
(*              per handler invocation).                                   *)
(* CancelSpec : cancellation requests, reset and child links of a small    *)
(*              set of cancellation tokens; ToolSpec: their tool tracking; *)
(*              ResetSpec: one token with tools, callbacks and children.   *)
(* SessionSpec: mount, initialize, execute and cleanup of one session,     *)
(*              with its cancellation token requested during an execute.   *)
(***************************************************************************)
EXTENDS Integers, Sequences, FiniteSets, TLC

VARIABLES
    \* ---- HookRegistry (hooks.rs:66-74)
    handlers,                 \* event -> sequence of HandlerEntry, kept sorted by priority
    defaults,                 \* Option<Value>
    next_id,                  \* next HandlerEntry id
    closures,                 \* the unregister closures handed out: id -> captured event_key
    removed,                  \* log: the ids whose unregister closure has been called
    \* ---- one emit() call in flight (hooks.rs:160-264)
    pc,                       \* "idle" | "running" | "done"
    emit_event,               \* the emit's event argument
    emit_data,                \* the emit's data argument
    entries,                  \* the snapshot of the handler list
    idx,                      \* position of the next handler in the snapshot
    current_data,             \* the payload handed to the next handler
    special_result,           \* Option<HookResult>
    inject_context_results,   \* sequence of HookResult
    calls,                    \* log: the handler invocations of this emit, in order
    result,                   \* Option<HookResult>: what emit returned
    responses,                \* what the last emit_and_collect returned
    unregister_fns,           \* PyHookRegistry (lib.rs:826-829): name -> id of the closure kept
    \* ---- CancellationToken (cancellation.rs:67-73), one Inner per token
    state,                    \* token -> CancellationState
    running_tools,            \* token -> set of tool-call ids
    running_tool_names,       \* token -> (tool-call id -> name)
    child_tokens,             \* token -> sequence of tokens
    on_cancel_callbacks,      \* token -> sequence of callbacks
    last_op,                  \* log: the last token operation and what it returned
    \* ---- token operations in progress on several threads
    locks,                    \* token -> the thread that holds its Mutex, 0 when it is free
    stacks,                   \* thread -> its call stack of token operations, innermost last
    callback_log,             \* log: thread -> what its last trigger_callbacks() called and awaited
    \* ---- Session (session.rs:128-135) and its Coordinator (coordinator.rs:69-92)
    initialized,              \* bool
    status,                   \* SessionState
    is_resumed,               \* bool
    orchestrator,             \* Option: the mounted orchestrator
    context,                  \* Option: the mounted context manager
    providers,                \* the names of the mounted providers
    cleanup_functions,        \* sequence of cleanup callables
    session_pc,               \* "idle", or where execute() or initialize() stands
    session_op,               \* log: the last session or coordinator operation called
    trace,                    \* log: what that operation emitted and invoked, in order
    exec_result,              \* log: Option, what the last execute() or initialize() returned
    \* ---- Coordinator (coordinator.rs:69-92) and PyCoordinator (lib.rs:1088-1120)
    tools,                    \* name -> the tool mounted under it
    channels,                 \* channel -> sequence of contributor entries
    current_turn_injections,  \* usize
    py_current_turn_injections, \* usize: the binding's own counter (lib.rs:1113)
    cleanup_pc,               \* "idle" | "running": where the coordinator's cleanup() stands
    functions,                \* cleanup(): the callables taken and not yet invoked
    spawned,                  \* cleanup(): Option, the callable whose task is awaited
    cleanup_log,              \* log: what the last cleanup() started and saw finish, in order
    coord_op                  \* log: the last coordinator operation and what it returned

hookVars == <<handlers, defaults, next_id, closures, removed, pc, emit_event, emit_data, entries, idx,
              current_data, special_result, inject_context_results, calls, result, responses, unregister_fns>>
cancelVars == <<state, running_tools, running_tool_names, child_tokens, on_cancel_callbacks,
                last_op>>
sessionVars == <<initialized, status, is_resumed, orchestrator, context, providers,
                 cleanup_functions, session_pc, session_op, trace, exec_result>>
coordVars == <<tools, channels, current_turn_injections, py_current_turn_injections, cleanup_pc,
               functions, spawned, cleanup_log, coord_op>>
threadVars == <<locks, stacks, callback_log>>
vars == <<hookVars, cancelVars, threadVars, sessionVars, coordVars>>

(***************************************************************************)
(* Bounds                                                                  *)
(***************************************************************************)
MaxHandlers == 3      \* register() calls over the registry's lifetime
MaxLinks == 3         \* registered parent-child links, over all tokens
MaxCallbacks == 2     \* on_cancel() calls on one token
MaxCleanups == 2      \* cleanup callables registered at one time

(***************************************************************************)
(* Values                                                                  *)
(***************************************************************************)
\* Option<T>
None == <<>>
Some(x) == <<x>>
IsSome(o) == Len(o) = 1
Unwrap(o) == o[1]

\* serde_json::Value: an object (a string-keyed map) or a non-object (null)
EmptyMap == [k \in {} |-> ""]
Obj(m) == [obj |-> TRUE, map |-> m]
Null == [obj |-> FALSE, map |-> EmptyMap]

\* map.insert(k, v)
MapInsert(m, k, v) == [x \in DOMAIN m \cup {k} |-> IF x = k THEN v ELSE m[x]]

\* chrono::Utc::now().to_rfc3339(): the instant of this emission
NowRfc3339 == "2026-01-01T00:00:00+00:00"
UserTimestamp == "user-provided"

Events == {"tool:pre", "tool:post"}
Priorities == {0, 5}

\* the payloads a caller passes to emit
EventData ==
    { Obj([k \in {"key", "timestamp"} |-> IF k = "key" THEN "override" ELSE UserTimestamp]),
      Null }

\* the values a caller passes to set_default_fields
DefaultFields == { Obj([k \in {"key", "session_id"} |-> IF k = "key" THEN "default" ELSE "test-123"]) }

(***************************************************************************)
(* HookResult (models.rs:152-254)                                          *)
(***************************************************************************)
DefaultHookResult ==
    [ action                 |-> "continue",
      data                   |-> None,
      reason                 |-> None,
      context_injection      |-> None,
      context_injection_role |-> "system",
      ephemeral              |-> FALSE,
      approval_prompt        |-> None,
      suppress_output        |-> FALSE,
      user_message           |-> None ]

Ok(r) == [ok |-> TRUE, r |-> r]
Err == [ok |-> FALSE, r |-> DefaultHookResult]

(***************************************************************************)
(* Handlers: the behaviours a registered HookHandler can have              *)
(***************************************************************************)
HandlerKinds ==
    { "continue", "deny", "modify_replace", "modify_insert", "modify_nodata",
      "inject_first", "inject_second", "inject_none", "ask_first", "ask_second", "fail" }

\* serde_json::from_value::<HashMap>(data).unwrap_or_default()
from_value(v) == IF v.obj THEN v.map ELSE EmptyMap

\* handler.handle(event, data)
Handle(kind, event, data) ==
    CASE kind = "continue" -> Ok(DefaultHookResult)
      [] kind = "deny" ->
            Ok([DefaultHookResult EXCEPT !.action = "deny", !.reason = Some("blocked")])
      [] kind = "modify_replace" ->
            Ok([DefaultHookResult EXCEPT !.action = "modify",
                    !.data = Some([k \in {"replaced"} |-> "yes"])])
      [] kind = "modify_insert" ->
            Ok([DefaultHookResult EXCEPT !.action = "modify",
                    !.data = Some(MapInsert(from_value(data), "added", "true"))])
      [] kind = "modify_nodata" ->
            Ok([DefaultHookResult EXCEPT !.action = "modify"])
      [] kind = "inject_first" ->
            Ok([DefaultHookResult EXCEPT !.action = "inject_context",
                    !.context_injection = Some("first"),
                    !.context_injection_role = "user",
                    !.ephemeral = TRUE,
                    !.suppress_output = TRUE,
                    !.user_message = Some("note")])
      [] kind = "inject_second" ->
            Ok([DefaultHookResult EXCEPT !.action = "inject_context",
                    !.context_injection = Some("second")])
      [] kind = "inject_none" ->
            Ok([DefaultHookResult EXCEPT !.action = "inject_context"])
      [] kind = "ask_first" ->
            Ok([DefaultHookResult EXCEPT !.action = "ask_user",
                    !.approval_prompt = Some("approve?")])
      [] kind = "ask_second" ->
            Ok([DefaultHookResult EXCEPT !.action = "ask_user",
                    !.approval_prompt = Some("really?")])
      [] kind = "fail" -> Err
      [] kind = "slow" ->
            Ok([DefaultHookResult EXCEPT !.data = Some([k \in {"late"} |-> "yes"])])

(***************************************************************************)
(* Helpers (hooks.rs:359-413)                                              *)
(***************************************************************************)
merge_json(base, overlay) ==
    IF base.obj /\ overlay.obj
    THEN Obj([k \in DOMAIN base.map \cup DOMAIN overlay.map |->
                 IF k \in DOMAIN overlay.map THEN overlay.map[k] ELSE base.map[k]])
    ELSE overlay

value_to_map(value) == IF value.obj THEN value.map ELSE EmptyMap

\* serde_json::to_value(&HashMap<String, Value>): always an object
to_value(m) == Obj(m)

RECURSIVE Join(_, _)
Join(strs, sep) ==
    IF Len(strs) = 0 THEN ""
    ELSE IF Len(strs) = 1 THEN strs[1]
    ELSE strs[1] \o sep \o Join(Tail(strs), sep)

\* results.iter().filter_map(|r| r.context_injection.as_deref())
RECURSIVE Injections(_)
Injections(results) ==
    IF results = <<>> THEN <<>>
    ELSE (IF IsSome(results[1].context_injection)
          THEN <<Unwrap(results[1].context_injection)>> ELSE <<>>)
         \o Injections(Tail(results))

\* mutant: the settings of the last injection are used instead of the first
merge_inject_context_results_LastSettings(results) ==
    IF Len(results) = 0 THEN DefaultHookResult
    ELSE IF Len(results) = 1 THEN results[1]
    ELSE [DefaultHookResult EXCEPT
            !.action = "inject_context",
            !.context_injection = Some(Join(Injections(results), "\n\n")),
            !.context_injection_role = results[Len(results)].context_injection_role,
            !.ephemeral = results[Len(results)].ephemeral,
            !.suppress_output = results[Len(results)].suppress_output]

merge_inject_context_results(results) ==
    IF Len(results) = 0 THEN DefaultHookResult
    ELSE IF Len(results) = 1 THEN results[1]
    ELSE [DefaultHookResult EXCEPT
            !.action = "inject_context",
            !.context_injection = Some(Join(Injections(results), "\n\n")),
            !.context_injection_role = results[1].context_injection_role,
            !.ephemeral = results[1].ephemeral,
            !.suppress_output = results[1].suppress_output]

(***************************************************************************)
(* register (hooks.rs:98-141)                                              *)
(***************************************************************************)
\* Vec::sort_by_key(|e| e.priority): a stable sort; here by insertion
\* mutant: an unstable sort, a new entry goes before the entries of equal priority
RECURSIVE InsertByKey_Unstable(_, _)
InsertByKey_Unstable(sorted, e) ==
    IF sorted = <<>> THEN <<e>>
    ELSE IF sorted[Len(sorted)].priority < e.priority THEN Append(sorted, e)
    ELSE Append(InsertByKey_Unstable(SubSeq(sorted, 1, Len(sorted) - 1), e), sorted[Len(sorted)])

RECURSIVE InsertByKey(_, _)
InsertByKey(sorted, e) ==
    IF sorted = <<>> THEN <<e>>
    ELSE IF sorted[Len(sorted)].priority <= e.priority THEN Append(sorted, e)
    ELSE Append(InsertByKey(SubSeq(sorted, 1, Len(sorted) - 1), e), sorted[Len(sorted)])

RECURSIVE sort_by_key(_)
sort_by_key(s) ==
    IF s = <<>> THEN <<>>
    ELSE InsertByKey(sort_by_key(SubSeq(s, 1, Len(s) - 1)), s[Len(s)])

HandlerName(name, id) == IF IsSome(name) THEN Unwrap(name) ELSE "handler-" \o ToString(id)

Register(event, handler, priority, name) ==
    /\ next_id < MaxHandlers
    /\ LET id == next_id
           entry == [handler |-> handler, priority |-> priority,
                     name |-> HandlerName(name, id), id |-> id]
       IN /\ next_id' = next_id + 1
          /\ handlers' = [handlers EXCEPT ![event] = sort_by_key(Append(@, entry))]
          /\ closures' = Append(closures, event)
    /\ UNCHANGED <<defaults, removed, pc, emit_event, emit_data, entries, idx, current_data,
                   special_result, inject_context_results, calls, result>>
    /\ UNCHANGED <<responses, unregister_fns>>
    /\ UNCHANGED cancelVars
    /\ UNCHANGED <<sessionVars, coordVars, threadVars>>

\* the names a caller passes to register
HandlerNames == {None, Some("audit")}

\* mutant: the closure removes every entry that has the name of its entry
RetainNotId_ByName(s, id) ==
    LET named == {s[i].name : i \in {j \in DOMAIN s : s[j].id = id}}
    IN SelectSeq(s, LAMBDA e : e.name \notin named)

\* event_handlers.retain(|e| e.id != id)
RetainNotId(s, id) == SelectSeq(s, LAMBDA e : e.id # id)

\* calling the closure that register returned for the entry with this id
Unregister(id) ==
    /\ id < next_id
    /\ handlers' = [handlers EXCEPT ![closures[id + 1]] = RetainNotId(@, id)]
    /\ removed' = removed \cup {id}
    /\ UNCHANGED <<defaults, next_id, closures, pc, emit_event, emit_data, entries, idx, current_data,
                   special_result, inject_context_results, calls, result>>
    /\ UNCHANGED <<responses, unregister_fns>>
    /\ UNCHANGED cancelVars
    /\ UNCHANGED <<sessionVars, coordVars, threadVars>>

\* the values a caller passes to a later set_default_fields
LaterDefaultFields == { Obj([k \in {"parent_id"} |-> "parent-1"]) }

\* mutant: the new default fields are added to the ones set before
SetDefaultFields_Adds(d) ==
    /\ defaults' = Some(IF IsSome(defaults) THEN merge_json(Unwrap(defaults), d) ELSE d)
    /\ UNCHANGED <<handlers, next_id, closures, removed, pc, emit_event, emit_data, entries, idx, current_data,
                   special_result, inject_context_results, calls, result>>
    /\ UNCHANGED <<responses, unregister_fns>>
    /\ UNCHANGED cancelVars
    /\ UNCHANGED <<sessionVars, coordVars, threadVars>>

\* set_default_fields (hooks.rs:147-149)
SetDefaultFields(d) ==
    /\ defaults' = Some(d)
    /\ UNCHANGED <<handlers, next_id, closures, removed, pc, emit_event, emit_data, entries, idx, current_data,
                   special_result, inject_context_results, calls, result>>
    /\ UNCHANGED <<responses, unregister_fns>>
    /\ UNCHANGED cancelVars
    /\ UNCHANGED <<sessionVars, coordVars, threadVars>>

(***************************************************************************)
(* emit (hooks.rs:160-264)                                                 *)
(***************************************************************************)
\* hooks.rs:170-174 and 180-184: the result when no handler is registered
NoHandlersResult(data) ==
    [DefaultHookResult EXCEPT !.action = "continue", !.data = Some(value_to_map(data))]

\* hooks.rs:188-194: defaults merged under the event data
MergeDefaults(dflt, data) ==
    IF IsSome(dflt) THEN merge_json(Unwrap(dflt), data) ELSE data

\* hooks.rs:200-205: the timestamp is inserted when the payload is an object
StampTimestamp(v) ==
    IF v.obj THEN Obj(MapInsert(v.map, "timestamp", NowRfc3339)) ELSE v

\* mutant: a deny result does not end the loop
ShortCircuits_Never(r) == FALSE

\* hooks.rs:221: deny short-circuits
ShortCircuits(r) == r.action = "deny"

\* mutant: the modified data is not handed on
ChainData_Dropped(current, r) == current

\* hooks.rs:226-230: modify chains its data to the next handler
ChainData(current, r) ==
    IF r.action = "modify" /\ IsSome(r.data) THEN to_value(Unwrap(r.data)) ELSE current

\* hooks.rs:233-235: inject_context results are collected
CollectInjection(collected, r) ==
    IF r.action = "inject_context" /\ IsSome(r.context_injection)
    THEN Append(collected, r) ELSE collected

\* mutant: a later ask_user replaces the captured one
PreserveAskUser_Last(special, r) ==
    IF r.action = "ask_user" THEN Some(r) ELSE special

\* hooks.rs:238-240: the first ask_user is kept
PreserveAskUser(special, r) ==
    IF r.action = "ask_user" /\ ~IsSome(special) THEN Some(r) ELSE special

\* mutant: merged injections replace a captured ask_user
WithMergedInjections_Override(special, collected) ==
    IF collected # <<>> THEN Some(merge_inject_context_results(collected)) ELSE special

\* hooks.rs:244-251: merged injections are returned unless an ask_user was captured
WithMergedInjections(special, collected) ==
    IF collected # <<>> /\ ~IsSome(special)
    THEN Some(merge_inject_context_results(collected))
    ELSE special

\* hooks.rs:243-263: what emit returns after the loop
FinalResult(special, collected, current) ==
    LET s == WithMergedInjections(special, collected)
    IN IF IsSome(s) THEN Unwrap(s)
       ELSE [DefaultHookResult EXCEPT !.action = "continue",
                                      !.data = Some(value_to_map(current))]

\* mutant: a handler error ends the emission
ErrorAborts_Yes == TRUE

\* hooks.rs:214-217: a handler error is skipped, the loop goes on
ErrorAborts == FALSE

\* emit up to the first handler invocation: snapshot, merge, stamp
EmitStart(event, data) ==
    /\ pc # "running"
    /\ emit_event' = event
    /\ emit_data' = data
    /\ entries' = handlers[event]
    /\ calls' = <<>>
    /\ special_result' = None
    /\ inject_context_results' = <<>>
    /\ IF handlers[event] = <<>>
       THEN /\ pc' = "done"
            /\ idx' = 1
            /\ current_data' = data
            /\ result' = Some(NoHandlersResult(data))
       ELSE /\ pc' = "running"
            /\ idx' = 1
            /\ current_data' = StampTimestamp(MergeDefaults(defaults, data))
            /\ result' = None
    /\ UNCHANGED <<handlers, defaults, next_id, closures, removed>>
    /\ UNCHANGED <<responses, unregister_fns>>
    /\ UNCHANGED cancelVars
    /\ UNCHANGED <<sessionVars, coordVars, threadVars>>

\* one iteration of the loop: the handler runs, its outcome is processed, and
\* after the last handler emit returns
\* the list emit's loop walks: the clone of the event's list it took under the
\* lock at its start (hooks.rs:162-186), not the registry's list
Dispatched_Live(live, snapshot) == live

Dispatched(live, snapshot) == snapshot

EmitStep ==
    /\ pc = "running"
    /\ LET list == Dispatched(handlers[emit_event], entries)
           e == list[idx]
           out == Handle(e.handler, emit_event, current_data)
           last == idx = Len(list)
           cur == IF out.ok THEN ChainData(current_data, out.r) ELSE current_data
           inj == IF out.ok THEN CollectInjection(inject_context_results, out.r)
                  ELSE inject_context_results
           spc == IF out.ok THEN PreserveAskUser(special_result, out.r) ELSE special_result
       IN /\ calls' = Append(calls, [id |-> e.id, handler |-> e.handler,
                                     priority |-> e.priority, data |-> current_data])
          /\ IF (out.ok /\ ShortCircuits(out.r)) \/ (~out.ok /\ ErrorAborts)
             THEN /\ pc' = "done"
                  /\ result' = Some(IF out.ok THEN out.r ELSE DefaultHookResult)
                  /\ UNCHANGED <<idx, current_data, special_result, inject_context_results>>
             ELSE /\ current_data' = cur
                  /\ inject_context_results' = inj
                  /\ special_result' = spc
                  /\ idx' = idx + 1
                  /\ IF last
                     THEN pc' = "done" /\ result' = Some(FinalResult(spc, inj, cur))
                     ELSE pc' = "running" /\ result' = None
    /\ UNCHANGED <<handlers, defaults, next_id, closures, removed, emit_event, emit_data, entries>>
    /\ UNCHANGED <<responses, unregister_fns>>
    /\ UNCHANGED cancelVars
    /\ UNCHANGED <<sessionVars, coordVars, threadVars>>

(***************************************************************************)
(* CancellationToken (cancellation.rs:115-288)                             *)
(* A token operation runs to completion as one step; `st` is the state of  *)
(* every token, `ch` the child list of every token.                        *)
(***************************************************************************)
TokenIds == {1, 2, 3}
ToolCallIds == {"tc_1"}
ToolNames == {"bash"}
CallbackIds == {"cb_a", "cb_b"}
Threads == {1, 2}
\* entries of `callback_log`: the callbacks trigger_callbacks() found, those it
\* has called, how their futures ended, and whether it has returned
NoCallbacks == [snapshot |-> <<>>, called |-> <<>>, outcomes |-> <<>>, returned |-> FALSE]

\* mutant: request_graceful acts on every token that is not Graceful
GracefulApplies_NotGraceful(s) == s # "Graceful"

\* cancellation.rs:148: request_graceful acts only on a token in state None
GracefulApplies(s) == s = "None"

\* cancellation.rs:168: request_immediate acts on a token that is not Immediate
ImmediateApplies(s) == s # "Immediate"

\* cancellation.rs:146-161
RECURSIVE request_graceful(_, _, _)
RECURSIVE PropagateGraceful(_, _, _)
\* mutant: a token that is already Graceful asks its children again
request_graceful_Repropagates(st, ch, t) ==
    CASE st[t] = "None" -> PropagateGraceful([st EXCEPT ![t] = "Graceful"], ch, ch[t])
      [] st[t] = "Graceful" ->
            [x \in DOMAIN st |->
                IF st[x] = "None" /\ \E i \in 1..Len(ch[t]) : ch[t][i] = x
                THEN "Graceful" ELSE st[x]]
      [] OTHER -> st

request_graceful(st, ch, t) ==
    IF GracefulApplies(st[t])
    THEN PropagateGraceful([st EXCEPT ![t] = "Graceful"], ch, ch[t])
    ELSE st

\* cancellation.rs:152-156: the cloned child list, one child after the other
PropagateGraceful(st, ch, children) ==
    IF children = <<>> THEN st
    ELSE PropagateGraceful(request_graceful(st, ch, children[1]), ch, Tail(children))

\* cancellation.rs:166-179
RECURSIVE request_immediate(_, _, _)
RECURSIVE PropagateImmediate(_, _, _)
request_immediate(st, ch, t) ==
    IF ImmediateApplies(st[t])
    THEN PropagateImmediate([st EXCEPT ![t] = "Immediate"], ch, ch[t])
    ELSE st

\* mutant: request_immediate does not reach the children
PropagateImmediate_None(st, ch, children) == st

\* cancellation.rs:170-174
PropagateImmediate(st, ch, children) ==
    IF children = <<>> THEN st
    ELSE PropagateImmediate(request_immediate(st, ch, children[1]), ch, Tail(children))

\* mutant: a new child does not inherit the parent's state
InheritState_None(st, ch, current_state, child) == st

\* mutant: a new child of an Immediate parent is only asked to stop gracefully
InheritState_GracefulOnly(st, ch, current_state, child) ==
    IF current_state = "None" THEN st ELSE request_graceful(st, ch, child)

\* mutant: a new child is given the parent's state, whatever its own was
InheritState_Assigns(st, ch, current_state, child) == [st EXCEPT ![child] = current_state]

\* cancellation.rs:238-246: a new child is brought to the parent's current state
InheritState(st, ch, current_state, child) ==
    CASE current_state = "Graceful"  -> request_graceful(st, ch, child)
      [] current_state = "Immediate" -> request_immediate(st, ch, child)
      [] current_state = "None"      -> st

\* mutant: unregister_child removes only the first entry identical to the child
RECURSIVE RetainNotChild_FirstOnly(_, _)
RetainNotChild_FirstOnly(children, child) ==
    IF children = <<>> THEN <<>>
    ELSE IF children[1] = child THEN Tail(children)
    ELSE <<children[1]>> \o RetainNotChild_FirstOnly(Tail(children), child)

\* child_tokens.retain(|c| !Arc::ptr_eq(&c.inner, &child.inner))
RetainNotChild(children, child) == SelectSeq(children, LAMBDA c : c # child)

RECURSIVE SumLen(_, _)
SumLen(ch, S) ==
    IF S = {} THEN 0
    ELSE LET t == CHOOSE x \in S : TRUE IN Len(ch[t]) + SumLen(ch, S \ {t})

Links == SumLen(child_tokens, TokenIds)

Op(name, t, ret) == [op |-> name, token |-> t, ret |-> ret]

RequestGraceful(t) ==
    /\ state' = request_graceful(state, child_tokens, t)
    /\ last_op' = Op("request_graceful", t, GracefulApplies(state[t]))
    /\ UNCHANGED <<running_tools, running_tool_names, child_tokens>>
    /\ UNCHANGED on_cancel_callbacks
    /\ UNCHANGED hookVars
    /\ UNCHANGED <<sessionVars, coordVars, threadVars>>

RequestImmediate(t) ==
    /\ state' = request_immediate(state, child_tokens, t)
    /\ last_op' = Op("request_immediate", t, ImmediateApplies(state[t]))
    /\ UNCHANGED <<running_tools, running_tool_names, child_tokens>>
    /\ UNCHANGED on_cancel_callbacks
    /\ UNCHANGED hookVars
    /\ UNCHANGED <<sessionVars, coordVars, threadVars>>

\* mutant: reset also forgets the registered children
Reset_ClearsChildren(t) ==
    /\ state' = [state EXCEPT ![t] = "None"]
    /\ running_tools' = [running_tools EXCEPT ![t] = {}]
    /\ running_tool_names' = [running_tool_names EXCEPT ![t] = EmptyMap]
    /\ last_op' = Op("reset", t, FALSE)
    /\ child_tokens' = [child_tokens EXCEPT ![t] = <<>>]
    /\ UNCHANGED on_cancel_callbacks
    /\ UNCHANGED hookVars
    /\ UNCHANGED <<sessionVars, coordVars, threadVars>>

\* cancellation.rs:185-190
Reset(t) ==
    /\ state' = [state EXCEPT ![t] = "None"]
    /\ running_tools' = [running_tools EXCEPT ![t] = {}]
    /\ running_tool_names' = [running_tool_names EXCEPT ![t] = EmptyMap]
    /\ last_op' = Op("reset", t, FALSE)
    /\ UNCHANGED child_tokens
    /\ UNCHANGED on_cancel_callbacks
    /\ UNCHANGED hookVars
    /\ UNCHANGED <<sessionVars, coordVars, threadVars>>

\* cancellation.rs:195-201
RegisterToolStart(t, tool_call_id, tool_name) ==
    /\ running_tools' = [running_tools EXCEPT ![t] = @ \cup {tool_call_id}]
    /\ running_tool_names' =
           [running_tool_names EXCEPT ![t] = MapInsert(@, tool_call_id, tool_name)]
    /\ last_op' = Op("register_tool_start", t, FALSE)
    /\ UNCHANGED <<state, child_tokens>>
    /\ UNCHANGED on_cancel_callbacks
    /\ UNCHANGED hookVars
    /\ UNCHANGED <<sessionVars, coordVars, threadVars>>

\* cancellation.rs:204-208
RegisterToolComplete(t, tool_call_id) ==
    /\ running_tools' = [running_tools EXCEPT ![t] = @ \ {tool_call_id}]
    /\ running_tool_names' =
           [running_tool_names EXCEPT
              ![t] = [k \in DOMAIN @ \ {tool_call_id} |-> @[k]]]
    /\ last_op' = Op("register_tool_complete", t, FALSE)
    /\ UNCHANGED <<state, child_tokens>>
    /\ UNCHANGED on_cancel_callbacks
    /\ UNCHANGED hookVars
    /\ UNCHANGED <<sessionVars, coordVars, threadVars>>

\* cancellation.rs:232-249
RegisterChild(t, child) ==
    /\ Links < MaxLinks
    /\ state' = InheritState(state, child_tokens, state[t], child)
    /\ child_tokens' = [child_tokens EXCEPT ![t] = Append(@, child)]
    /\ last_op' = Op("register_child", t, FALSE)
    /\ UNCHANGED <<running_tools, running_tool_names>>
    /\ UNCHANGED on_cancel_callbacks
    /\ UNCHANGED hookVars
    /\ UNCHANGED <<sessionVars, coordVars, threadVars>>

\* cancellation.rs:252-255
UnregisterChild(t, child) ==
    /\ child_tokens' = [child_tokens EXCEPT ![t] = RetainNotChild(@, child)]
    /\ last_op' = Op("unregister_child", t, FALSE)
    /\ UNCHANGED <<state, running_tools, running_tool_names>>
    /\ UNCHANGED on_cancel_callbacks
    /\ UNCHANGED hookVars
    /\ UNCHANGED <<sessionVars, coordVars, threadVars>>

\* cancellation.rs:259-261
OnCancel(t, callback) ==
    /\ locks[t] = 0
    /\ Len(on_cancel_callbacks[t]) < MaxCallbacks
    /\ on_cancel_callbacks' = [on_cancel_callbacks EXCEPT ![t] = Append(@, callback)]
    /\ last_op' = Op("on_cancel", t, FALSE)
    /\ UNCHANGED <<state, running_tools, running_tool_names, child_tokens>>
    /\ UNCHANGED hookVars
    /\ UNCHANGED <<sessionVars, coordVars, threadVars>>

(***************************************************************************)
(* Session (session.rs:128-351) with its Coordinator (coordinator.rs) and  *)
(* the session of the Python binding (bindings/python/src/lib.rs:167-814). *)
(* The events a session emits and the callables it invokes are logged in   *)
(* `trace`, which starts anew with every operation.                        *)
(***************************************************************************)
SessionId == "test-session"
ParentId == "null"                       \* parent_id: None, serialised as null
SessionToken == 1                        \* coordinator.cancellation()
OrchestratorKinds == {"ok", "fail"}
ProviderNames == {"test"}
CleanupIds == {"cleanup_a", "cleanup_b"}
Prompts == {"hello"}

\* events.rs:32, 38, 46
SESSION_START == "session:start"
SESSION_END == "session:end"
SESSION_RESUME == "session:resume"

\* Result<String, AmplifierError>
ExecOk(v) == [ok |-> TRUE, value |-> v]
ExecErr(e) == [ok |-> FALSE, value |-> e]

\* errors.rs:131-132
NotInitialized == "session not initialized"

\* orchestrator.execute(prompt, ...): FakeOrchestrator (testing.rs:343-355)
\* returns its response, a failing orchestrator returns an error
OrchestratorExecute(kind, prompt) ==
    IF kind = "ok" THEN ExecOk("orchestrated response") ELSE ExecErr("orchestrator failed")

\* entries of `trace`
Emitted(event, data) == [kind |-> "emit", event |-> event, data |-> data]
Invoked(what, id) == [kind |-> what, event |-> id, data |-> Null]

\* cancellation.rs: is_cancelled()
is_cancelled(s) == s # "None"

\* Session::status(): session.rs:192-199
StatusName(s) ==
    CASE s = "Running" -> "running"
      [] s = "Completed" -> "completed"
      [] s = "Failed" -> "failed"
      [] s = "Cancelled" -> "cancelled"

\* session.rs:225-227
SetInitialized ==
    /\ session_pc = "idle"
    /\ initialized' = TRUE
    /\ session_op' = "set_initialized"
    /\ trace' = <<>>
    /\ UNCHANGED <<status, is_resumed, orchestrator, context, providers, cleanup_functions,
                   session_pc, exec_result>>
    /\ UNCHANGED <<hookVars, cancelVars, coordVars, threadVars>>

\* session.rs:232-234
ClearInitialized ==
    /\ session_pc = "idle"
    /\ initialized' = FALSE
    /\ session_op' = "clear_initialized"
    /\ trace' = <<>>
    /\ UNCHANGED <<status, is_resumed, orchestrator, context, providers, cleanup_functions,
                   session_pc, exec_result>>
    /\ UNCHANGED <<hookVars, cancelVars, coordVars, threadVars>>

\* coordinator.rs:120-122
SetOrchestrator(kind) ==
    /\ session_pc = "idle"
    /\ orchestrator' = Some(kind)
    /\ session_op' = "set_orchestrator"
    /\ trace' = <<>>
    /\ UNCHANGED <<initialized, status, is_resumed, context, providers, cleanup_functions,
                   session_pc, exec_result>>
    /\ UNCHANGED <<hookVars, cancelVars, coordVars, threadVars>>

\* coordinator.rs:132-134
SetContext ==
    /\ session_pc = "idle"
    /\ context' = Some("context")
    /\ session_op' = "set_context"
    /\ trace' = <<>>
    /\ UNCHANGED <<initialized, status, is_resumed, orchestrator, providers, cleanup_functions,
                   session_pc, exec_result>>
    /\ UNCHANGED <<hookVars, cancelVars, coordVars, threadVars>>

\* coordinator.rs:144-149
MountProvider(name) ==
    /\ session_pc = "idle"
    /\ providers' = providers \cup {name}
    /\ session_op' = "mount_provider"
    /\ trace' = <<>>
    /\ UNCHANGED <<initialized, status, is_resumed, orchestrator, context, cleanup_functions,
                   session_pc, exec_result>>
    /\ UNCHANGED <<hookVars, cancelVars, coordVars, threadVars>>

\* coordinator.rs:288-290
RegisterCleanup(cleanup_fn) ==
    /\ session_pc = "idle"
    /\ Len(cleanup_functions) < MaxCleanups
    /\ cleanup_functions' = Append(cleanup_functions, cleanup_fn)
    /\ session_op' = "register_cleanup"
    /\ trace' = <<>>
    /\ UNCHANGED <<initialized, status, is_resumed, orchestrator, context, providers,
                   session_pc, exec_result>>
    /\ UNCHANGED <<hookVars, cancelVars, coordVars, threadVars>>

\* mutant: execute does not look at the initialized flag
RequiresInitialized_Never(init) == FALSE

\* session.rs:250: execute refuses a session that is not initialized
RequiresInitialized(init) == ~init

\* mutant: the lifecycle event is session:start for every session
LifecycleEvent_AlwaysStart(resumed) == SESSION_START

\* session.rs:255-259
LifecycleEvent(resumed) == IF resumed THEN SESSION_RESUME ELSE SESSION_START

\* session.rs:265-268: the payload of the lifecycle event
LifecycleData == Obj([k \in {"session_id", "parent_id"} |->
                        IF k = "session_id" THEN SessionId ELSE ParentId])

\* mutant: the outcome alone decides the status
StatusAfter_IgnoresCancellation(ok, cancelled) == IF ok THEN "Completed" ELSE "Failed"

\* session.rs:310-328: the status once the orchestrator has finished
StatusAfter(ok, cancelled) ==
    IF ok THEN (IF cancelled THEN "Cancelled" ELSE "Completed")
          ELSE (IF cancelled THEN "Cancelled" ELSE "Failed")

\* session.rs:249-308: execute up to the point where it awaits the orchestrator
ExecuteStart(prompt) ==
    /\ session_pc = "idle"
    /\ session_op' = "execute"
    /\ IF RequiresInitialized(initialized)
       THEN /\ exec_result' = Some(ExecErr(NotInitialized))
            /\ trace' = <<>>
            /\ UNCHANGED <<status, session_pc>>
       ELSE LET emitted == <<Emitted(LifecycleEvent(is_resumed), LifecycleData)>>
            IN CASE ~IsSome(orchestrator) ->
                      /\ exec_result' = Some(ExecErr("No orchestrator mounted"))
                      /\ trace' = emitted
                      /\ UNCHANGED <<status, session_pc>>
                 [] IsSome(orchestrator) /\ ~IsSome(context) ->
                      /\ exec_result' = Some(ExecErr("No context manager mounted"))
                      /\ trace' = emitted
                      /\ UNCHANGED <<status, session_pc>>
                 [] IsSome(orchestrator) /\ IsSome(context) /\ providers = {} ->
                      /\ exec_result' = Some(ExecErr("No providers mounted"))
                      /\ trace' = emitted
                      /\ UNCHANGED <<status, session_pc>>
                 [] OTHER ->
                      /\ status' = "Running"
                      /\ trace' = Append(emitted, Invoked("orchestrator", prompt))
                      /\ session_pc' = "orchestrating"
                      /\ exec_result' = None
    /\ UNCHANGED <<initialized, is_resumed, orchestrator, context, providers, cleanup_functions>>
    /\ UNCHANGED <<hookVars, cancelVars, coordVars, threadVars>>

\* session.rs:299-329: the orchestrator finishes and execute returns
ExecuteFinish ==
    /\ session_pc = "orchestrating"
    /\ LET out == OrchestratorExecute(Unwrap(orchestrator), trace[Len(trace)].event)
       IN /\ status' = StatusAfter(out.ok, is_cancelled(state[SessionToken]))
          /\ exec_result' = Some(out)
    /\ session_pc' = "idle"
    /\ UNCHANGED <<initialized, is_resumed, orchestrator, context, providers, cleanup_functions,
                   session_op, trace>>
    /\ UNCHANGED <<hookVars, cancelVars, coordVars, threadVars>>

\* the cleanup callables run last-registered first
RECURSIVE RunReversed(_)
RunReversed(fns) ==
    IF fns = <<>> THEN <<>>
    ELSE <<Invoked("cleanup_fn", fns[Len(fns)])>> \o RunReversed(SubSeq(fns, 1, Len(fns) - 1))

\* session.rs:342-345: the payload of session:end
SessionEndData(st) == Obj([k \in {"session_id", "status"} |->
                            IF k = "session_id" THEN SessionId ELSE StatusName(st)])

\* Session::cleanup (session.rs:335-350) with Coordinator::cleanup
\* (coordinator.rs:296-311), which takes the callables out of the list
Cleanup ==
    /\ session_pc = "idle"
    /\ session_op' = "cleanup"
    /\ trace' = <<Emitted(SESSION_END, SessionEndData(status))>> \o RunReversed(cleanup_functions)
    /\ cleanup_functions' = <<>>
    /\ UNCHANGED <<initialized, status, is_resumed, orchestrator, context, providers,
                   session_pc, exec_result>>
    /\ UNCHANGED <<hookVars, cancelVars, coordVars, threadVars>>

\* lib.rs:762: the payload of session:end in the Python binding
PySessionEndData == Obj([k \in {"session_id"} |-> SessionId])

\* PySession::cleanup (bindings/python/src/lib.rs:656-788): the callables of
\* a snapshot of the list, then session:end, then the flag is cleared
PyCleanup ==
    /\ session_pc = "idle"
    /\ session_op' = "py_cleanup"
    /\ trace' = Append(RunReversed(cleanup_functions), Emitted(SESSION_END, PySessionEndData))
    /\ initialized' = FALSE
    /\ UNCHANGED <<status, is_resumed, orchestrator, context, providers, cleanup_functions,
                   session_pc, exec_result>>
    /\ UNCHANGED <<hookVars, cancelVars, coordVars, threadVars>>

(***************************************************************************)
(* PySession::initialize and PySession::execute (bindings/python/src/      *)
(* lib.rs:378-644). The loader and the orchestrator are reached through    *)
(* Python helpers that are not part of the Rust sources: the loader either *)
(* succeeds or fails, the orchestrator call has the outcome of the mounted *)
(* orchestrator.                                                           *)
(***************************************************************************)
CANCEL_COMPLETED == "cancel:completed"

\* lib.rs:380-385: an initialized session returns at once; otherwise the
\* loader coroutine is created and awaited (lib.rs:388-424)
PyInitializeStart ==
    /\ session_pc = "idle"
    /\ session_op' = "py_initialize"
    /\ IF initialized
       THEN /\ trace' = <<>>
            /\ exec_result' = Some(ExecOk("None"))
            /\ UNCHANGED session_pc
       ELSE /\ trace' = <<Invoked("loader", SessionId)>>
            /\ exec_result' = None
            /\ session_pc' = "py_loading"
    /\ UNCHANGED <<initialized, status, is_resumed, orchestrator, context, providers,
                   cleanup_functions>>
    /\ UNCHANGED <<hookVars, cancelVars, coordVars, threadVars>>

\* mutant: the flag is set whatever the loader returned
InitializedAfterLoad_Always(loaded) == TRUE

\* lib.rs:417-427: a loader error returns before set_initialized is reached
InitializedAfterLoad(loaded) == loaded

\* lib.rs:419-432: the loader has finished
PyInitializeFinish(loaded) ==
    /\ session_pc = "py_loading"
    /\ session_pc' = "idle"
    /\ initialized' = (IF InitializedAfterLoad(loaded) THEN TRUE ELSE initialized)
    /\ exec_result' = Some(IF loaded THEN ExecOk("None")
                           ELSE ExecErr("Session initialization failed: loader failed"))
    /\ UNCHANGED <<status, is_resumed, orchestrator, context, providers, cleanup_functions,
                   session_op, trace>>
    /\ UNCHANGED <<hookVars, cancelVars, coordVars, threadVars>>

\* lib.rs:452-562: execute up to the point where it awaits the orchestrator
PyExecuteStart(prompt) ==
    /\ session_pc = "idle"
    /\ session_op' = "py_execute"
    /\ IF ~initialized
       THEN /\ exec_result' = Some(ExecErr("Session not initialized. Call initialize() first."))
            /\ trace' = <<>>
            /\ UNCHANGED session_pc
       ELSE /\ trace' = << Emitted(LifecycleEvent(is_resumed), LifecycleData),
                           Invoked("emit_debug_events", LifecycleEvent(is_resumed) \o ":debug"),
                           Invoked("orchestrator", prompt) >>
            /\ exec_result' = None
            /\ session_pc' = "py_orchestrating"
    /\ UNCHANGED <<initialized, status, is_resumed, orchestrator, context, providers,
                   cleanup_functions>>
    /\ UNCHANGED <<hookVars, cancelVars, coordVars, threadVars>>

\* the outcome of the orchestrator coroutine
PyOrchestratorResult ==
    IF IsSome(orchestrator) THEN OrchestratorExecute(Unwrap(orchestrator), "hello")
    ELSE ExecErr("No orchestrator mounted")

\* lib.rs:622-640: what execute returns for the orchestrator's outcome
PyExecuteResult(out) ==
    IF out.ok THEN out ELSE ExecErr("Execution failed: " \o out.value)

\* PyCancellationToken::state (lib.rs:1068-1071)
PyStateName(s) ==
    CASE s = "None" -> "none"
      [] s = "Graceful" -> "graceful"
      [] s = "Immediate" -> "immediate"

\* lib.rs:587-588 and 621-623: the payload of cancel:completed
CancelCompletedData(s, out) ==
    LET was == IF PyStateName(s) = "immediate" THEN "true" ELSE "false"
    IN IF out.ok
       THEN Obj([k \in {"was_immediate"} |-> was])
       ELSE Obj([k \in {"was_immediate", "error"} |->
                    IF k = "was_immediate" THEN was ELSE out.value])

\* lib.rs:562-576: the orchestrator has finished and is_cancelled is read
PyExecuteCheck ==
    /\ session_pc = "py_orchestrating"
    /\ IF is_cancelled(state[SessionToken])
       THEN /\ session_pc' = "py_cancel_completed"
            /\ UNCHANGED exec_result
       ELSE /\ session_pc' = "idle"
            /\ exec_result' = Some(PyExecuteResult(PyOrchestratorResult))
    /\ UNCHANGED <<initialized, status, is_resumed, orchestrator, context, providers,
                   cleanup_functions, session_op, trace>>
    /\ UNCHANGED <<hookVars, cancelVars, coordVars, threadVars>>

\* lib.rs:581-640: the token's state is read, cancel:completed is emitted
\* and execute returns
PyExecuteFinish ==
    /\ session_pc = "py_cancel_completed"
    /\ session_pc' = "idle"
    /\ trace' = Append(trace, Emitted(CANCEL_COMPLETED,
                                      CancelCompletedData(state[SessionToken], PyOrchestratorResult)))
    /\ exec_result' = Some(PyExecuteResult(PyOrchestratorResult))
    /\ UNCHANGED <<initialized, status, is_resumed, orchestrator, context, providers,
                   cleanup_functions, session_op>>
    /\ UNCHANGED <<hookVars, cancelVars, coordVars, threadVars>>

(***************************************************************************)
(* Coordinator (coordinator.rs) and PyCoordinator (lib.rs:1088-1690):      *)
(* tools, contribution channels, the per-turn counter and cleanup().       *)
(***************************************************************************)
MaxContributors == 3  \* register_contributor() calls, over all channels
MaxInjections == 2    \* the largest value of a per-turn injection counter

MountNames == {"echo", "search"}
ToolModules == {"tool_v1", "tool_v2"}
Channels == {"events", "metrics"}
ContributorNames == {"mod-a", "mod-b"}
\* what a contributor's callback resolves to
ContributorCallbacks == {ExecOk("event1"), ExecOk("ok"), ExecErr("contributor failed")}

\* entries of `coord_op`
CoordOp(name, arg, ret, called) == [name |-> name, arg |-> arg, ret |-> ret, called |-> called]

\* HashMap::remove
MapRemove(m, k) == [x \in DOMAIN m \ {k} |-> m[x]]

\* mutant: a name that is already mounted keeps its tool
MountedAs_KeepsFirst(m, name, tool) == IF name \in DOMAIN m THEN m ELSE MapInsert(m, name, tool)

\* coordinator.rs:170-173, lib.rs:1273-1293: HashMap::insert / dict set_item
MountedAs(m, name, tool) == MapInsert(m, name, tool)

\* coordinator.rs:169-174
MountTool(name, tool) ==
    /\ tools' = MountedAs(tools, name, tool)
    /\ coord_op' = CoordOp("mount_tool", <<name, tool>>, None, <<>>)
    /\ UNCHANGED <<channels, current_turn_injections, py_current_turn_injections, cleanup_pc,
                   functions, spawned, cleanup_log>>
    /\ UNCHANGED <<hookVars, cancelVars, sessionVars, threadVars>>

\* coordinator.rs:177-179, lib.rs:1347-1355
get_tool(m, name) == IF name \in DOMAIN m THEN Some(m[name]) ELSE None

\* coordinator.rs:187-189, lib.rs:1385-1393: returns whether the name was mounted
UnmountTool(name) ==
    /\ tools' = MapRemove(tools, name)
    /\ coord_op' = CoordOp("unmount_tool", <<name>>, Some(name \in DOMAIN tools), <<>>)
    /\ UNCHANGED <<channels, current_turn_injections, py_current_turn_injections, cleanup_pc,
                   functions, spawned, cleanup_log>>
    /\ UNCHANGED <<hookVars, cancelVars, sessionVars, threadVars>>

\* the contributors of a channel (coordinator.rs:260 and 268)
Contributors(ch, channel) == IF channel \in DOMAIN ch THEN ch[channel] ELSE <<>>

\* coordinator.rs:234-250
RegisterContributor(channel, name, callback) ==
    /\ SumLen([c \in Channels |-> Contributors(channels, c)], Channels) < MaxContributors
    /\ channels' = MapInsert(channels, channel,
                             Append(Contributors(channels, channel),
                                    [name |-> name, callback |-> callback]))
    /\ coord_op' = CoordOp("register_contributor", <<channel, name>>, None, <<>>)
    /\ UNCHANGED <<tools, current_turn_injections, py_current_turn_injections, cleanup_pc,
                   functions, spawned, cleanup_log>>
    /\ UNCHANGED <<hookVars, cancelVars, sessionVars, threadVars>>

\* mutant: the error of a failed contributor is returned with the values
Contributes_Always(r) == TRUE

\* coordinator.rs:273-280: Ok(value) is pushed, Err is skipped
Contributes(r) == r.ok

\* coordinator.rs:271-282
CollectedValues(es) ==
    LET kept == SelectSeq(es, LAMBDA e : Contributes(e.callback))
    IN [i \in 1..Len(kept) |-> kept[i].callback.value]

\* coordinator.rs:256-283
CollectContributions(channel) ==
    LET es == Contributors(channels, channel)
    IN /\ coord_op' = CoordOp("collect_contributions", <<channel>>, CollectedValues(es),
                              [i \in 1..Len(es) |-> <<channel, i>>])
       /\ UNCHANGED <<tools, channels, current_turn_injections, py_current_turn_injections,
                      cleanup_pc, functions, spawned, cleanup_log>>
       /\ UNCHANGED <<hookVars, cancelVars, sessionVars, threadVars>>

\* coordinator.rs:327-329
IncrementInjections(count) ==
    /\ current_turn_injections + count <= MaxInjections
    /\ current_turn_injections' = current_turn_injections + count
    /\ coord_op' = CoordOp("increment_injections", <<count>>, None, <<>>)
    /\ UNCHANGED <<tools, channels, py_current_turn_injections, cleanup_pc, functions, spawned,
                   cleanup_log>>
    /\ UNCHANGED <<hookVars, cancelVars, sessionVars, threadVars>>

\* lib.rs:1681-1684: the setter of _current_turn_injections
PySetInjections(value) ==
    /\ py_current_turn_injections' = value
    /\ coord_op' = CoordOp("py_set_injections", <<value>>, None, <<>>)
    /\ UNCHANGED <<tools, channels, current_turn_injections, cleanup_pc, functions, spawned,
                   cleanup_log>>
    /\ UNCHANGED <<hookVars, cancelVars, sessionVars, threadVars>>

\* mutant: the turn boundary also resets the session's cancellation token
ResetTurn_ResetsToken ==
    /\ current_turn_injections' = 0
    /\ coord_op' = CoordOp("reset_turn", None, None, <<>>)
    /\ state' = [state EXCEPT ![SessionToken] = "None"]
    /\ UNCHANGED <<running_tools, running_tool_names, child_tokens, on_cancel_callbacks, last_op>>
    /\ UNCHANGED <<tools, channels, py_current_turn_injections, cleanup_pc, functions, spawned,
                   cleanup_log>>
    /\ UNCHANGED <<hookVars, sessionVars, threadVars>>

\* coordinator.rs:316-319
ResetTurn ==
    /\ current_turn_injections' = 0
    /\ coord_op' = CoordOp("reset_turn", None, None, <<>>)
    /\ UNCHANGED <<tools, channels, py_current_turn_injections, cleanup_pc, functions, spawned,
                   cleanup_log>>
    /\ UNCHANGED <<hookVars, cancelVars, sessionVars, threadVars>>

\* lib.rs:1665-1668
PyResetTurn ==
    /\ py_current_turn_injections' = 0
    /\ current_turn_injections' = 0
    /\ coord_op' = CoordOp("py_reset_turn", None, None, <<>>)
    /\ UNCHANGED <<tools, channels, cleanup_pc, functions, spawned, cleanup_log>>
    /\ UNCHANGED <<hookVars, cancelVars, sessionVars, threadVars>>

\* entries of `cleanup_log`
Logged(kind, f) == [kind |-> kind, fn |-> f]

\* mutant: cleanup() reads the registered callables and leaves them registered
CoordinatorCleanupStart_Keeps ==
    /\ cleanup_pc = "idle"
    /\ cleanup_pc' = "running"
    /\ functions' = cleanup_functions
    /\ spawned' = None
    /\ cleanup_log' = <<>>
    /\ coord_op' = CoordOp("cleanup", cleanup_functions, None, <<>>)
    /\ UNCHANGED <<tools, channels, current_turn_injections, py_current_turn_injections>>
    /\ UNCHANGED <<hookVars, cancelVars, sessionVars, threadVars>>

\* coordinator.rs:296-303: the callables are taken out of the list
CoordinatorCleanupStart ==
    /\ cleanup_pc = "idle"
    /\ cleanup_pc' = "running"
    /\ functions' = cleanup_functions
    /\ cleanup_functions' = <<>>
    /\ spawned' = None
    /\ cleanup_log' = <<>>
    /\ coord_op' = CoordOp("cleanup", cleanup_functions, None, <<>>)
    /\ UNCHANGED <<tools, channels, current_turn_injections, py_current_turn_injections>>
    /\ UNCHANGED <<initialized, status, is_resumed, orchestrator, context, providers,
                   session_pc, session_op, trace, exec_result>>
    /\ UNCHANGED <<hookVars, cancelVars, threadVars>>

\* lib.rs:1491-1497: the list is walked where it is and keeps its callables
PyCoordinatorCleanupStart ==
    /\ cleanup_pc = "idle"
    /\ cleanup_pc' = "running"
    /\ functions' = cleanup_functions
    /\ spawned' = None
    /\ cleanup_log' = <<>>
    /\ coord_op' = CoordOp("py_cleanup", cleanup_functions, None, <<>>)
    /\ UNCHANGED <<tools, channels, current_turn_injections, py_current_turn_injections>>
    /\ UNCHANGED <<hookVars, cancelVars, sessionVars, threadVars>>

\* mutant: the task of a callable is spawned and not awaited
Awaited_NoWait(task) == TRUE

\* coordinator.rs:307: tokio::task::spawn(fut).await
Awaited(task) == task = None

\* a cleanup callable is a function that returns a future (coordinator.rs:37,
\* or a Python callable that may return a coroutine): beside those that return
\* their future, one that fails when it is called
CleanupCallables == CleanupIds \cup {"cleanup_panics"}

CallFails(f) == f = "cleanup_panics"

\* coordinator.rs:305-307, lib.rs:1498-1506: the last callable not yet invoked
\* is called. A call that fails is caught and logged by the binding
\* (lib.rs:1529-1537); in the Rust coordinator cleanup_fn() is called outside
\* the spawned task (coordinator.rs:306), so its panic leaves cleanup().
CleanupInvoke ==
    /\ cleanup_pc = "running"
    /\ functions # <<>>
    /\ Awaited(spawned)
    /\ functions' = SubSeq(functions, 1, Len(functions) - 1)
    /\ LET f == functions[Len(functions)]
       IN IF CallFails(f)
          THEN /\ spawned' = None
               /\ cleanup_log' = cleanup_log \o <<Logged("started", f), Logged("failed", f)>>
               /\ cleanup_pc' = IF coord_op.name = "cleanup" THEN "idle" ELSE "running"
          ELSE /\ spawned' = Some(f)
               /\ cleanup_log' = Append(cleanup_log, Logged("started", f))
               /\ UNCHANGED cleanup_pc
    /\ UNCHANGED <<tools, channels, current_turn_injections, py_current_turn_injections,
                   coord_op>>
    /\ UNCHANGED <<hookVars, cancelVars, sessionVars, threadVars>>

\* mutant: the first failure ends the run
ContinuesAfter_SuccessOnly(ok) == ok

\* coordinator.rs:307-309, lib.rs:1529-1537: an error is logged and the loop goes on
ContinuesAfter(ok) == TRUE

\* the callable's task ends, normally or with a failure
CleanupFnCompletes(ok) ==
    /\ cleanup_pc = "running"
    /\ IsSome(spawned)
    /\ spawned' = None
    /\ cleanup_log' = Append(cleanup_log,
                             Logged(IF ok THEN "finished" ELSE "failed", Unwrap(spawned)))
    /\ functions' = (IF ContinuesAfter(ok) THEN functions ELSE <<>>)
    /\ UNCHANGED <<tools, channels, current_turn_injections, py_current_turn_injections,
                   cleanup_pc, coord_op>>
    /\ UNCHANGED <<hookVars, cancelVars, sessionVars, threadVars>>

\* coordinator.rs:305-311: the loop is over and cleanup() returns
CoordinatorCleanupReturn ==
    /\ cleanup_pc = "running"
    /\ functions = <<>>
    /\ Awaited(spawned)
    /\ cleanup_pc' = "idle"
    /\ cleanup_log' = Append(cleanup_log, Logged("returned", "cleanup"))
    /\ UNCHANGED <<tools, channels, current_turn_injections, py_current_turn_injections,
                   functions, spawned, coord_op>>
    /\ UNCHANGED <<hookVars, cancelVars, sessionVars, threadVars>>

(***************************************************************************)
(* Initial state                                                           *)
(***************************************************************************)
CancelInit ==
    /\ state = [t \in TokenIds |-> "None"]
    /\ running_tools = [t \in TokenIds |-> {}]
    /\ running_tool_names = [t \in TokenIds |-> EmptyMap]
    /\ child_tokens = [t \in TokenIds |-> <<>>]
    /\ on_cancel_callbacks = [t \in TokenIds |-> <<>>]
    /\ last_op = Op("new", 1, FALSE)
    /\ locks = [t \in TokenIds |-> 0]
    /\ stacks = [th \in Threads |-> <<>>]
    /\ callback_log = [th \in Threads |-> NoCallbacks]

HookInit ==
    /\ handlers = [e \in Events |-> <<>>]
    /\ defaults = None
    /\ next_id = 0
    /\ closures = <<>>
    /\ removed = {}
    /\ pc = "idle"
    /\ emit_event = "tool:pre"
    /\ emit_data = Null
    /\ entries = <<>>
    /\ idx = 1
    /\ current_data = Null
    /\ special_result = None
    /\ inject_context_results = <<>>
    /\ calls = <<>>
    /\ result = None
    /\ responses = <<>>
    /\ unregister_fns = EmptyMap

\* Session::new (session.rs:146-168) with Coordinator::new (coordinator.rs:96-110)
SessionNew ==
    /\ initialized = FALSE
    /\ status = "Running"
    /\ is_resumed = FALSE
    /\ orchestrator = None
    /\ context = None
    /\ providers = {}
    /\ cleanup_functions = <<>>
    /\ session_pc = "idle"
    /\ session_op = "new"
    /\ trace = <<>>
    /\ exec_result = None

\* Session::new_resumed (session.rs:171-179)
SessionNewResumed ==
    /\ initialized = FALSE
    /\ status = "Running"
    /\ is_resumed = TRUE
    /\ orchestrator = None
    /\ context = None
    /\ providers = {}
    /\ cleanup_functions = <<>>
    /\ session_pc = "idle"
    /\ session_op = "new"
    /\ trace = <<>>
    /\ exec_result = None

\* session.rs:155-158: the default fields a session gives its hook registry
SessionDefaults == Obj([k \in {"session_id", "parent_id"} |->
                          IF k = "session_id" THEN SessionId ELSE ParentId])

\* the hook registry of a session's coordinator after Session::new
SessionHookInit ==
    /\ handlers = [e \in Events |-> <<>>]
    /\ defaults = Some(SessionDefaults)
    /\ next_id = 0
    /\ closures = <<>>
    /\ removed = {}
    /\ pc = "idle"
    /\ emit_event = "tool:pre"
    /\ emit_data = Null
    /\ entries = <<>>
    /\ idx = 1
    /\ current_data = Null
    /\ special_result = None
    /\ inject_context_results = <<>>
    /\ calls = <<>>
    /\ result = None
    /\ responses = <<>>
    /\ unregister_fns = EmptyMap

\* Coordinator::new (coordinator.rs:96-110)
CoordinatorNew ==
    /\ tools = EmptyMap
    /\ channels = EmptyMap
    /\ current_turn_injections = 0
    /\ py_current_turn_injections = 0
    /\ cleanup_pc = "idle"
    /\ functions = <<>>
    /\ spawned = None
    /\ cleanup_log = <<>>
    /\ coord_op = CoordOp("new", None, None, <<>>)

Init == HookInit /\ CancelInit /\ SessionNew /\ CoordinatorNew

SessionInit ==
    SessionHookInit /\ CancelInit /\ (SessionNew \/ SessionNewResumed) /\ CoordinatorNew

(***************************************************************************)
(* DispatchSpec: handlers of every behaviour on one event; what one emit   *)
(* does with their results.                                                *)
(***************************************************************************)
DispatchNext ==
    \/ \E h \in HandlerKinds : Register("tool:pre", h, 0, None)
    \/ \E d \in DefaultFields : SetDefaultFields(d)
    \/ \E ev \in Events, d \in EventData : EmitStart(ev, d)
    \/ EmitStep

DispatchSpec == Init /\ [][DispatchNext]_vars

(***************************************************************************)
(* OrderSpec: handlers of several priorities on two events, registered and *)
(* unregistered; which handlers an emit invokes and in which order.        *)
(***************************************************************************)
OrderNext ==
    \/ \E ev \in Events, p \in Priorities, n \in HandlerNames : Register(ev, "continue", p, n)
    \/ \E id \in 0..(MaxHandlers - 1) : Unregister(id)
    \/ \E ev \in Events : EmitStart(ev, Obj(EmptyMap))
    \/ EmitStep

OrderSpec == Init /\ [][OrderNext]_vars

(***************************************************************************)
(* DefaultsSpec: the default fields are set and set again between emits on *)
(* an event with handlers.                                                 *)
(***************************************************************************)
DefaultsNext ==
    \/ \E h \in {"continue", "modify_insert"} : Register("tool:pre", h, 0, None)
    \/ \E d \in DefaultFields \cup LaterDefaultFields : SetDefaultFields(d)
    \/ \E d \in EventData \cup {Obj(EmptyMap)} : EmitStart("tool:pre", d)
    \/ EmitStep

DefaultsSpec == Init /\ [][DefaultsNext]_vars

(***************************************************************************)
(* CancelSpec: cancellation requests, reset and child registration on a     *)
(* small set of tokens, in any order.                                      *)
(***************************************************************************)
CancelNext ==
    \/ \E t \in TokenIds : RequestGraceful(t)
    \/ \E t \in TokenIds : RequestImmediate(t)
    \/ \E t \in TokenIds : Reset(t)
    \/ \E t \in TokenIds, c \in TokenIds : RegisterChild(t, c)
    \/ \E t \in TokenIds, c \in TokenIds : UnregisterChild(t, c)

CancelSpec == Init /\ [][CancelNext]_vars

(***************************************************************************)
(* ToolSpec: tool tracking on tokens without children, with cancellation   *)
(* requests and reset.                                                     *)
(***************************************************************************)
ToolNext ==
    \/ \E t \in TokenIds, id \in ToolCallIds, n \in ToolNames : RegisterToolStart(t, id, n)
    \/ \E t \in TokenIds, id \in ToolCallIds : RegisterToolComplete(t, id)
    \/ \E t \in TokenIds : RequestGraceful(t)
    \/ \E t \in TokenIds : RequestImmediate(t)
    \/ \E t \in TokenIds : Reset(t)

ToolSpec == Init /\ [][ToolNext]_vars

(***************************************************************************)
(* ResetSpec: one token with tool tracking, callbacks and children, under  *)
(* cancellation requests and reset on every token.                         *)
(***************************************************************************)
ResetNext ==
    \/ \E id \in ToolCallIds, n \in ToolNames : RegisterToolStart(1, id, n)
    \/ \E id \in ToolCallIds : RegisterToolComplete(1, id)
    \/ OnCancel(1, "cb_a")
    \/ \E c \in TokenIds : RegisterChild(1, c)
    \/ \E t \in TokenIds : RequestGraceful(t)
    \/ \E t \in TokenIds : RequestImmediate(t)
    \/ \E t \in TokenIds : Reset(t)

ResetSpec == Init /\ [][ResetNext]_vars

(***************************************************************************)
(* SessionSpec: a session, new or resumed, whose modules are mounted and   *)
(* which is initialized, executed and cleaned up in any order, while its   *)
(* cancellation token is requested and reset, also during an execute.      *)
(***************************************************************************)
SessionNext ==
    \/ SetInitialized
    \/ ClearInitialized
    \/ \E k \in OrchestratorKinds : SetOrchestrator(k)
    \/ SetContext
    \/ \E n \in ProviderNames : MountProvider(n)
    \/ \E f \in CleanupIds : RegisterCleanup(f)
    \/ \E p \in Prompts : ExecuteStart(p)
    \/ ExecuteFinish
    \/ Cleanup
    \/ PyCleanup
    \/ PyInitializeStart
    \/ \E loaded \in BOOLEAN : PyInitializeFinish(loaded)
    \/ \E p \in Prompts : PyExecuteStart(p)
    \/ PyExecuteCheck
    \/ PyExecuteFinish
    \/ RequestGraceful(SessionToken)
    \/ RequestImmediate(SessionToken)
    \/ Reset(SessionToken)

SessionSpec == SessionInit /\ [][SessionNext]_vars

(***************************************************************************)
(* CleanupSpec: cleanup callables are registered and the coordinator's     *)
(* cleanup() runs them, through the Rust coordinator or the Python         *)
(* binding; each callable ends normally or with a failure.                 *)
(***************************************************************************)
CleanupNext ==
    \/ \E f \in CleanupCallables : RegisterCleanup(f)
    \/ CoordinatorCleanupStart
    \/ PyCoordinatorCleanupStart
    \/ CleanupInvoke
    \/ \E ok \in BOOLEAN : CleanupFnCompletes(ok)
    \/ CoordinatorCleanupReturn

CleanupSpec == Init /\ [][CleanupNext]_vars

(***************************************************************************)
(* MountSpec: tools are mounted and unmounted by name; contributors are    *)
(* registered on channels and the channels are collected.                  *)
(***************************************************************************)
MountNext ==
    \/ \E n \in MountNames, m \in ToolModules : MountTool(n, m)
    \/ \E n \in MountNames : UnmountTool(n)
    \/ \E c \in Channels, n \in ContributorNames, cb \in ContributorCallbacks :
          RegisterContributor(c, n, cb)
    \/ \E c \in Channels : CollectContributions(c)

MountSpec == Init /\ [][MountNext]_vars

(***************************************************************************)
(* TurnSpec: the injection counters of a coordinator are raised and reset  *)
(* at turn boundaries while its cancellation token is in use.              *)
(***************************************************************************)
TurnNext ==
    \/ \E c \in 1..MaxInjections : IncrementInjections(c)
    \/ \E v \in 1..MaxInjections : PySetInjections(v)
    \/ ResetTurn
    \/ PyResetTurn
    \/ \E id \in ToolCallIds, n \in ToolNames : RegisterToolStart(SessionToken, id, n)
    \/ \E cb \in CallbackIds : OnCancel(SessionToken, cb)
    \/ \E c \in TokenIds \ {SessionToken} : RegisterChild(SessionToken, c)
    \/ RequestGraceful(SessionToken)
    \/ RequestImmediate(SessionToken)

TurnSpec == Init /\ [][TurnNext]_vars

(***************************************************************************)
(* What the handlers of the emission in `calls` returned                   *)
(***************************************************************************)
CallOut(i) == Handle(calls[i].handler, emit_event, calls[i].data)
Called == 1..Len(calls)
Returned(i, action) == CallOut(i).ok /\ CallOut(i).r.action = action
NoDeny == \A i \in Called : ~Returned(i, "deny")
NoAskUser == \A i \in Called : ~Returned(i, "ask_user")
Done == pc = "done"
Max(S) == CHOOSE x \in S : \A y \in S : y <= x
Min(S) == CHOOSE x \in S : \A y \in S : x <= y
Kinds(s) == [i \in 1..Len(s) |-> s[i].handler]

(***************************************************************************)
(* C1: when a handler returns deny, it is the last handler invoked in that *)
(* emission (no handler later in the order runs), and emit returns that    *)
(* handler's result, action deny with its reason, whatever the earlier     *)
(* handlers returned.                                                      *)
(***************************************************************************)
C1_DenyShortCircuits ==
    \A i \in Called :
        Returned(i, "deny") =>
            /\ i = Len(calls)
            /\ pc = "done"
            /\ result = Some(CallOut(i).r)
            /\ Unwrap(result).action = "deny"
            /\ Unwrap(result).reason = Some("blocked")

C1_Witness ==
    /\ pc = "done"
    /\ Len(entries) = 3
    /\ Kinds(calls) = <<"ask_first", "deny">>
    /\ Unwrap(result).action = "deny"

(***************************************************************************)
(* C2: the handler list of every event holds exactly the handlers          *)
(* registered for it and not unregistered, in non-decreasing priority      *)
(* order with equal priorities in registration order (ids grow with        *)
(* registration); an emit invokes the handlers of its snapshot one by one  *)
(* in that order, and a finished emit has invoked all of them.             *)
(***************************************************************************)
InPriorityOrder(s) ==
    \A i, j \in 1..Len(s) :
        i < j => \/ s[i].priority < s[j].priority
                 \/ s[i].priority = s[j].priority /\ s[i].id < s[j].id

C2_PriorityOrder ==
    /\ \A ev \in Events :
        /\ InPriorityOrder(handlers[ev])
        /\ {handlers[ev][i].id : i \in 1..Len(handlers[ev])}
              = {id \in 0..(next_id - 1) : closures[id + 1] = ev} \ removed
    /\ InPriorityOrder(entries)
    /\ Len(calls) <= Len(entries)
    /\ \A i \in Called : calls[i].id = entries[i].id /\ calls[i].priority = entries[i].priority
    /\ (pc = "running") => Len(calls) = idx - 1 /\ idx <= Len(entries)
    /\ (pc = "done" /\ NoDeny) => Len(calls) = Len(entries)

\* three handlers: the one registered last has the lowest priority and runs
\* first, the other two have equal priority and run in registration order
C2_Witness ==
    /\ pc = "done"
    /\ Len(calls) = 3
    /\ calls[1].id = 2 /\ calls[2].id = 0 /\ calls[3].id = 1
    /\ calls[1].priority < calls[2].priority
    /\ calls[2].priority = calls[3].priority

(***************************************************************************)
(* C3 as stated: with no deny, the returned action is the maximum of the   *)
(* actions the handlers returned under continue < modify < inject_context  *)
(* < ask_user.                                                             *)
(***************************************************************************)
ActionRank(a) ==
    CASE a = "continue" -> 0
      [] a = "modify" -> 1
      [] a = "inject_context" -> 2
      [] a = "ask_user" -> 3
      [] a = "deny" -> 4

RankAction(n) ==
    CASE n = 0 -> "continue"
      [] n = 1 -> "modify"
      [] n = 2 -> "inject_context"
      [] n = 3 -> "ask_user"
      [] n = 4 -> "deny"

EffectiveRank(r) ==
    CASE r.action = "ask_user" -> 3
      [] r.action = "inject_context" /\ IsSome(r.context_injection) -> 2
      [] OTHER -> 0

AskUserCalls == {i \in Called : Returned(i, "ask_user")}

C4_FirstAskUserWins ==
    (Done /\ NoDeny /\ AskUserCalls # {}) =>
        /\ result = Some(CallOut(Min(AskUserCalls)).r)
        /\ Unwrap(result).action = "ask_user"
        /\ Unwrap(result).approval_prompt = CallOut(Min(AskUserCalls)).r.approval_prompt

C4_Witness ==
    /\ pc = "done"
    /\ Kinds(calls) = <<"inject_first", "ask_second", "ask_first">>
    /\ Unwrap(result).approval_prompt = Some("really?")

(***************************************************************************)
(* C5: with no deny and no ask_user, if the inject_context results r1..rk  *)
(* (k >= 1) all carry a context_injection, emit returns inject_context     *)
(* with the texts of r1..rk joined in order by "\n\n", and with the role,  *)
(* ephemeral and suppress_output of r1.                                    *)
(***************************************************************************)
InjectCalls == {i \in Called : Returned(i, "inject_context")}

RECURSIVE TextsFrom(_)
TextsFrom(i) ==
    IF i > Len(calls) THEN ""
    ELSE IF i \in InjectCalls
         THEN IF \E j \in InjectCalls : j > i
              THEN Unwrap(CallOut(i).r.context_injection) \o "\n\n" \o TextsFrom(i + 1)
              ELSE Unwrap(CallOut(i).r.context_injection)
         ELSE TextsFrom(i + 1)

C5_InjectionsMerged ==
    ( /\ Done /\ NoDeny /\ NoAskUser
      /\ InjectCalls # {}
      /\ \A i \in InjectCalls : IsSome(CallOut(i).r.context_injection) ) =>
        LET first == CallOut(Min(InjectCalls)).r
            res == Unwrap(result)
        IN /\ res.action = "inject_context"
           /\ res.context_injection = Some(TextsFrom(1))
           /\ res.context_injection_role = first.context_injection_role
           /\ res.ephemeral = first.ephemeral
           /\ res.suppress_output = first.suppress_output

C5_Witness ==
    /\ pc = "done"
    /\ Kinds(calls) = <<"inject_second", "modify_insert", "inject_first">>
    /\ Unwrap(result).context_injection = Some("second\n\nfirst")
    /\ Unwrap(result).context_injection_role = "system"

(***************************************************************************)
(* C6: every handler after the first receives the data of the latest       *)
(* earlier handler that returned modify with data, or what the first       *)
(* handler received if there is none; the first handler receives every key *)
(* of the event data except timestamp; and when emit returns continue      *)
(* after invoking handlers, its data is the data after the last such       *)
(* modify (the map of the first handler's payload if there is none).       *)
(***************************************************************************)
ModifyCalls(i) ==
    {j \in 1..(i - 1) : Returned(j, "modify") /\ IsSome(CallOut(j).r.data)}

DataAfter(i) ==
    IF ModifyCalls(i) # {}
    THEN Obj(Unwrap(CallOut(Max(ModifyCalls(i))).r.data))
    ELSE calls[1].data

C6_ModifyChains ==
    /\ \A i \in Called : calls[i].data = DataAfter(i)
    /\ (calls # <<>> /\ emit_data.obj) =>
          /\ calls[1].data.obj
          /\ \A k \in DOMAIN emit_data.map \ {"timestamp"} :
                k \in DOMAIN calls[1].data.map /\ calls[1].data.map[k] = emit_data.map[k]
    /\ (Done /\ calls # <<>> /\ Unwrap(result).action = "continue") =>
          LET final == DataAfter(Len(calls) + 1)
          IN Unwrap(result).data = Some(IF final.obj THEN final.map ELSE EmptyMap)

C6_Witness ==
    /\ pc = "done"
    /\ Kinds(calls) = <<"modify_replace", "modify_insert", "continue">>
    /\ calls[2].data = Obj([k \in {"replaced"} |-> "yes"])
    /\ calls[3].data = Obj([k \in {"replaced", "added"} |-> IF k = "added" THEN "true" ELSE "yes"])
    /\ Unwrap(result).data = Some(calls[3].data.map)

(***************************************************************************)
(* C7: a handler that returns an error does not end the emission: the next *)
(* handler is invoked with the data the failing handler received, the      *)
(* emission ends only after the last handler or at a deny, and what emit   *)
(* returns is what the handlers that did not fail produce by themselves.   *)
(***************************************************************************)
RECURSIVE EmitOver(_, _, _, _)
EmitOver(outs, cur, spc, inj) ==
    IF outs = <<>> THEN FinalResult(spc, inj, cur)
    ELSE LET r == Head(outs)
         IN IF r.action = "deny" THEN r
            ELSE EmitOver(Tail(outs), ChainData(cur, r), PreserveAskUser(spc, r),
                          CollectInjection(inj, r))

RECURSIVE OkResultsFrom(_)
OkResultsFrom(i) ==
    IF i > Len(calls) THEN <<>>
    ELSE (IF CallOut(i).ok THEN <<CallOut(i).r>> ELSE <<>>) \o OkResultsFrom(i + 1)

C7_ErrorIsolated ==
    (\E i \in Called : ~CallOut(i).ok) =>
        /\ \A i \in Called :
              ~CallOut(i).ok =>
                 /\ i < Len(entries) => ~(pc = "done" /\ Len(calls) = i)
                 /\ i < Len(calls) => calls[i + 1].data = calls[i].data
        /\ Done => /\ Len(calls) = Len(entries) \/ Returned(Len(calls), "deny")
                   /\ result = Some(EmitOver(OkResultsFrom(1), calls[1].data, None, <<>>))

C7_Witness ==
    /\ pc = "done"
    /\ Kinds(calls) = <<"modify_insert", "fail", "inject_first">>
    /\ calls[3].data = calls[2].data
    /\ Unwrap(result).action = "inject_context"

(***************************************************************************)
(* C8 as stated: for an object payload, every payload emit delivers to a   *)
(* handler carries the timestamp the registry wrote for this emission,     *)
(* whatever the earlier handlers of the emission returned.                 *)
(***************************************************************************)
C8_TimestampDelivered ==
    emit_data.obj =>
        \A i \in Called :
            /\ calls[i].data.obj
            /\ "timestamp" \in DOMAIN calls[i].data.map
            /\ calls[i].data.map["timestamp"] = NowRfc3339

(***************************************************************************)
(* Token graph                                                             *)
(***************************************************************************)
Children(t) == {child_tokens[t][i] : i \in 1..Len(child_tokens[t])}

RECURSIVE Closure(_, _)
Closure(S, expand) ==
    LET N == S \cup UNION {Children(x) : x \in {y \in S : expand[y]}}
    IN IF N = S THEN S ELSE Closure(N, expand)

\* every token below t
Descendants(t) == Closure(Children(t), [x \in TokenIds |-> TRUE])

\* the tokens below t reached without passing through a token that is Immediate
ReachedFrom(t) == Closure(Children(t), [x \in TokenIds |-> state[x] # "Immediate"])

(***************************************************************************)
(* C9 as stated: a token in state Immediate stays Immediate and a token in *)
(* state Graceful only moves to Immediate, whatever operation is called.   *)
(***************************************************************************)
Lowered(t) ==
    \/ state[t] = "Immediate" /\ state'[t] # "Immediate"
    \/ state[t] = "Graceful" /\ state'[t] = "None"

C9_NeverLowered == [][\A t \in TokenIds : ~Lowered(t)]_vars

(***************************************************************************)
(* C9 amended: a token in state Immediate stays Immediate and a token in   *)
(* state Graceful only moves to Immediate, whatever operation is called    *)
(* other than reset() on that token.                                       *)
(***************************************************************************)
C9_LoweredOnlyByReset ==
    [][\A t \in TokenIds : Lowered(t) => last_op' = Op("reset", t, FALSE)]_vars

\* request_graceful on a parent has just propagated to a child that is
\* Immediate, and the child still is
C9_Witness ==
    \E t \in TokenIds, c \in TokenIds :
        /\ t # c
        /\ c \in Children(t)
        /\ last_op = Op("request_graceful", t, TRUE)
        /\ state[t] = "Graceful"
        /\ state[c] = "Immediate"

(***************************************************************************)
(* C10 as stated: after a request_graceful() that changed the state every  *)
(* registered child is at least Graceful, and after a request_immediate()  *)
(* that changed the state every registered child and every token below     *)
(* the children is Immediate.                                              *)
(***************************************************************************)
C10_AllDescendantsImmediate ==
    \A t \in TokenIds :
        /\ last_op = Op("request_graceful", t, TRUE) =>
              \A c \in Children(t) : state[c] # "None"
        /\ last_op = Op("request_immediate", t, TRUE) =>
              \A d \in Descendants(t) : state[d] = "Immediate"

(***************************************************************************)
(* C10 amended: after a request_graceful() that changed the state every    *)
(* registered child is at least Graceful; after a request_immediate() that *)
(* changed the state every registered child is Immediate, and so is every  *)
(* token below the children that is reached without passing through a      *)
(* token that was already Immediate before the call.                       *)
(***************************************************************************)
C10_PropagatesToChildren ==
    [][\A t \in TokenIds :
          /\ last_op' = Op("request_graceful", t, TRUE) =>
                \A c \in Children(t) : state'[c] # "None"
          /\ last_op' = Op("request_immediate", t, TRUE) =>
                /\ \A c \in Children(t) : state'[c] = "Immediate"
                /\ \A d \in ReachedFrom(t) : state'[d] = "Immediate"]_vars

\* request_immediate on the top of a chain of three tokens has just changed it
C10_Witness ==
    \E t \in TokenIds, c \in TokenIds, g \in TokenIds :
        /\ t # c /\ c # g /\ t # g
        /\ c \in Children(t)
        /\ g \in Children(c)
        /\ last_op = Op("request_immediate", t, TRUE)
        /\ state[t] = "Immediate" /\ state[c] = "Immediate" /\ state[g] = "Immediate"

(***************************************************************************)
(* Token states in the order None < Graceful < Immediate                   *)
(***************************************************************************)
StateRank(s) ==
    CASE s = "None" -> 0
      [] s = "Graceful" -> 1
      [] s = "Immediate" -> 2

\* the step is t.register_child(c)
RegisteredChild(t, c) ==
    /\ last_op' = Op("register_child", t, FALSE)
    /\ child_tokens'[t] = Append(child_tokens[t], c)

(***************************************************************************)
(* C11: every register_child(child) appends the child to the parent's      *)
(* child list, and if the parent's state is Graceful or Immediate when     *)
(* register_child is called, the child's state when it returns is at least *)
(* the state the parent had.                                               *)
(***************************************************************************)
C11_ChildInheritsState ==
    [][\A t \in TokenIds :
          last_op' = Op("register_child", t, FALSE) =>
              \E c \in TokenIds :
                  /\ RegisteredChild(t, c)
                  /\ c \in Children(t)'
                  /\ state[t] # "None" => StateRank(state'[c]) >= StateRank(state[t])]_vars

\* a child with a child of its own has just been registered under an
\* Immediate parent: both are Immediate
C11_Witness ==
    \E t \in TokenIds, c \in TokenIds, g \in TokenIds :
        /\ t # c /\ c # g /\ t # g
        /\ last_op = Op("register_child", t, FALSE)
        /\ child_tokens[t] = <<c>>
        /\ child_tokens[c] = <<g>>
        /\ state[t] = "Immediate" /\ state[c] = "Immediate" /\ state[g] = "Immediate"

C13_NoOpWhenAlreadyRequested ==
    [][\A t \in TokenIds :
          /\ (last_op'.op = "request_graceful" /\ last_op'.token = t /\ state[t] # "None") =>
                /\ last_op'.ret = FALSE
                /\ state' = state
                /\ UNCHANGED <<child_tokens, running_tools, running_tool_names>>
          /\ (last_op'.op = "request_immediate" /\ last_op'.token = t /\ state[t] = "Immediate") =>
                /\ last_op'.ret = FALSE
                /\ state' = state
                /\ UNCHANGED <<child_tokens, running_tools, running_tool_names>>]_vars

\* request_graceful on a Graceful parent has just returned false, and its
\* registered child, back in state None after a reset, is still in state None
C13_Witness ==
    \E t \in TokenIds, c \in TokenIds :
        /\ t # c
        /\ c \in Children(t)
        /\ last_op = Op("request_graceful", t, FALSE)
        /\ state[t] = "Graceful"
        /\ state[c] = "None"

\* the step is a request_graceful() or request_immediate() call on t
RequestedOn(t) ==
    /\ last_op'.op \in {"request_graceful", "request_immediate"}
    /\ last_op'.token = t

C15_ResetKeepsChildren ==
    [][\A t \in TokenIds :
          /\ last_op' = Op("reset", t, FALSE) =>
                /\ state'[t] = "None"
                /\ running_tools'[t] = {}
                /\ running_tool_names'[t] = EmptyMap
                /\ child_tokens' = child_tokens
                /\ on_cancel_callbacks' = on_cancel_callbacks
                /\ \A c \in TokenIds \ {t} :
                      /\ state'[c] = state[c]
                      /\ running_tools'[c] = running_tools[c]
                      /\ running_tool_names'[c] = running_tool_names[c]
          /\ (last_op = Op("reset", t, FALSE) /\ last_op'.op = "request_graceful"
                                              /\ last_op'.token = t) =>
                /\ last_op'.ret = TRUE
                /\ state'[t] = "Graceful"
                /\ \A c \in Children(t) : state'[c] # "None"]_vars

\* a token with a callback and a child that is Immediate has just been reset:
\* it is in state None without running tools, the child is still Immediate
C15_Witness ==
    \E c \in TokenIds \ {1} :
        /\ last_op = Op("reset", 1, FALSE)
        /\ state[1] = "None"
        /\ running_tools[1] = {}
        /\ child_tokens[1] = <<c>>
        /\ on_cancel_callbacks[1] = <<"cb_a">>
        /\ state[c] = "Immediate"

(***************************************************************************)
(* Session steps                                                           *)
(***************************************************************************)
\* the step is a call of execute()
ExecuteCalled == session_pc = "idle" /\ session_op' = "execute" /\ UNCHANGED cancelVars

\* the step is a call of cleanup(), of the session or of the Python binding
CleanupCalled ==
    session_pc = "idle" /\ session_op' \in {"cleanup", "py_cleanup"} /\ UNCHANGED cancelVars

\* the step is the return of the orchestrator and of execute()
OrchestratorFinished == session_pc = "orchestrating" /\ session_pc' = "idle"

C17_StatusAfterExecute ==
    [][OrchestratorFinished =>
          LET out == OrchestratorExecute(Unwrap(orchestrator), "hello")
          IN /\ exec_result' = Some(out)
             /\ status' = IF state[SessionToken] \in {"Graceful", "Immediate"} THEN "Cancelled"
                          ELSE IF out.ok THEN "Completed" ELSE "Failed"]_vars

\* the orchestrator failed while the token was cancelled
C17_Witness ==
    /\ session_op = "execute"
    /\ session_pc = "idle"
    /\ exec_result = Some(ExecErr("orchestrator failed"))
    /\ state[SessionToken] = "Graceful"
    /\ status = "Cancelled"

(***************************************************************************)
(* C18 as stated: after a session cleanup has completed the initialized    *)
(* flag is false, whatever it was when cleanup was called.                 *)
(***************************************************************************)
C18_ClearedAfterCleanup ==
    session_op \in {"cleanup", "py_cleanup"} => ~initialized

(***************************************************************************)
(* C19 as stated: a session cleanup invokes every registered cleanup       *)
(* callable, last registered first, then emits session:end, once, with a   *)
(* payload that carries the session id and the current status.             *)
(***************************************************************************)
C19_CallablesThenSessionEnd ==
    [][CleanupCalled =>
          LET n == Len(cleanup_functions)
          IN /\ Len(trace') = n + 1
             /\ \A i \in 1..n :
                   /\ trace'[i].kind = "cleanup_fn"
                   /\ trace'[i].event = cleanup_functions[n + 1 - i]
             /\ trace'[n + 1].kind = "emit"
             /\ trace'[n + 1].event = "session:end"
             /\ trace'[n + 1].data.obj
             /\ {"session_id", "status"} \subseteq DOMAIN trace'[n + 1].data.map
             /\ trace'[n + 1].data.map["session_id"] = SessionId
             /\ trace'[n + 1].data.map["status"] = StatusName(status)]_vars

(***************************************************************************)
(* C20: an execute on an initialized session emits exactly one lifecycle   *)
(* start event, as the first thing it does and so before the orchestrator  *)
(* is invoked: session:resume if the session was created as resumed,       *)
(* session:start otherwise.                                                *)
(***************************************************************************)
LifecycleEmits ==
    {i \in 1..Len(trace) : trace[i].kind = "emit"
                           /\ trace[i].event \in {"session:start", "session:resume"}}

C20_OneLifecycleEvent ==
    (session_op = "execute" /\ exec_result # Some(ExecErr("session not initialized"))) =>
        /\ LifecycleEmits = {1}
        /\ trace[1].event = (IF is_resumed THEN "session:resume" ELSE "session:start")
        /\ \A i \in 1..Len(trace) : trace[i].kind = "orchestrator" => i > 1

\* a resumed session has emitted session:resume and is awaiting its orchestrator
C20_Witness ==
    /\ session_op = "execute"
    /\ is_resumed
    /\ session_pc = "orchestrating"
    /\ Len(trace) = 2
    /\ trace[1].event = "session:resume"
    /\ trace[2].kind = "orchestrator"

\* the positions of the cancel:completed emissions in a trace
CancelCompleted(tr) ==
    {i \in DOMAIN tr : tr[i].kind = "emit" /\ tr[i].event = CANCEL_COMPLETED}

\* the step is the return of an execute() whose orchestrator has finished
ExecuteReturned ==
    /\ session_pc \in {"orchestrating", "py_orchestrating", "py_cancel_completed"}
    /\ session_pc' = "idle"

\* whether the returning execute() found its token cancelled
FoundCancelled ==
    session_pc = "py_cancel_completed"
    \/ (session_pc # "py_cancel_completed" /\ is_cancelled(state[SessionToken]))

(***************************************************************************)
(* C21: when execute returns after its orchestrator has returned or        *)
(* failed, it has emitted cancel:completed if it found the token           *)
(* cancelled, with was_immediate true exactly when the token's state is    *)
(* Immediate, and it has emitted no cancel:completed otherwise.            *)
(* Session::execute (session.rs:310-328) reads the token and emits         *)
(* nothing; only PySession::execute emits the event.                       *)
(***************************************************************************)
C21_CancelCompletedEmitted ==
    [][ExecuteReturned =>
         IF FoundCancelled
         THEN \E i \in CancelCompleted(trace') :
                 trace'[i].data.map["was_immediate"] =
                     (IF state[SessionToken] = "Immediate" THEN "true" ELSE "false")
         ELSE CancelCompleted(trace') = {}]_vars

\* the same statement for the Python binding's execute alone
PyExecuteEmitsCancelCompleted ==
    [][(ExecuteReturned /\ session_op = "py_execute") =>
         IF FoundCancelled
         THEN \E i \in CancelCompleted(trace') :
                 trace'[i].data.map["was_immediate"] =
                     (IF state[SessionToken] = "Immediate" THEN "true" ELSE "false")
         ELSE CancelCompleted(trace') = {}]_vars

\* the step is a call of the Python binding's initialize()
InitializeCalled ==
    session_pc = "idle" /\ session_op' = "py_initialize" /\ UNCHANGED cancelVars

\* the step is the return of the loader and of initialize()
LoaderReturned == session_pc = "py_loading" /\ session_pc' = "idle"

\* the positions of the loader's invocations in a trace
LoaderInvoked(tr) == {i \in DOMAIN tr : tr[i].kind = "loader"}

(***************************************************************************)
(* C22: initialize sets the initialized flag only when the loader has      *)
(* returned successfully; when the loader fails, initialize returns the    *)
(* error and the flag stays false; initialize on an initialized session    *)
(* succeeds without invoking the loader.                                   *)
(***************************************************************************)
C22_InitializedAfterLoader ==
    [][/\ (InitializeCalled /\ initialized) =>
            /\ initialized'
            /\ IsSome(exec_result') /\ Unwrap(exec_result').ok
            /\ LoaderInvoked(trace') = {}
       /\ (InitializeCalled /\ ~initialized) =>
            /\ ~initialized'
            /\ exec_result' = None
            /\ Cardinality(LoaderInvoked(trace')) = 1
       /\ LoaderReturned =>
            /\ IsSome(exec_result')
            /\ IF Unwrap(exec_result').ok
               THEN initialized'
               ELSE ~initialized']_vars

\* initialize has returned the loader's error
C22_Witness ==
    /\ session_op = "py_initialize"
    /\ session_pc = "idle"
    /\ IsSome(exec_result) /\ ~Unwrap(exec_result).ok
    /\ ~initialized
    /\ LoaderInvoked(trace) # {}

\* initialize has returned after the loader succeeded
LoaderSucceeded ==
    /\ session_op = "py_initialize"
    /\ session_pc = "idle"
    /\ IsSome(exec_result) /\ Unwrap(exec_result).ok
    /\ initialized
    /\ LoaderInvoked(trace) # {}

\* initialize has returned on an initialized session
InitializeRepeated ==
    /\ session_op = "py_initialize"
    /\ session_pc = "idle"
    /\ IsSome(exec_result) /\ Unwrap(exec_result).ok
    /\ initialized
    /\ LoaderInvoked(trace) = {}

\* a sequence in reverse
Reversed(s) == [i \in 1..Len(s) |-> s[Len(s) + 1 - i]]

\* the callables a cleanup() has started, in the order it started them
StartedFns(log) ==
    LET st == SelectSeq(log, LAMBDA e : e.kind = "started")
    IN [i \in 1..Len(st) |-> st[i].fn]

\* the coordinator's cleanup() has returned
CleanupReturned ==
    /\ cleanup_pc = "idle"
    /\ cleanup_log # <<>>
    /\ cleanup_log[Len(cleanup_log)].kind = "returned"

(***************************************************************************)
(* C23: the coordinator's cleanup() invokes the registered callables one   *)
(* at a time: a callable is started only when the one started before it    *)
(* has ended, and the callables started are, in order, the registered ones *)
(* in reverse registration order, all of them once cleanup() has returned. *)
(***************************************************************************)
C23_OneAtATimeInReverse ==
    /\ \A i \in DOMAIN cleanup_log :
          (cleanup_log[i].kind = "started" /\ i < Len(cleanup_log)) =>
             /\ cleanup_log[i + 1].kind \in {"finished", "failed"}
             /\ cleanup_log[i + 1].fn = cleanup_log[i].fn
    /\ coord_op.name \in {"cleanup", "py_cleanup"} =>
          /\ Len(StartedFns(cleanup_log)) <= Len(coord_op.arg)
          /\ StartedFns(cleanup_log) =
                SubSeq(Reversed(coord_op.arg), 1, Len(StartedFns(cleanup_log)))
          /\ CleanupReturned => StartedFns(cleanup_log) = Reversed(coord_op.arg)

\* cleanup() has returned after running two different callables
C23_Witness ==
    /\ CleanupReturned
    /\ coord_op.name = "cleanup"
    /\ coord_op.arg = <<"cleanup_a", "cleanup_b">>
    /\ StartedFns(cleanup_log) = <<"cleanup_b", "cleanup_a">>

\* the step is the failure of a cleanup callable
CleanupFnFailed ==
    /\ IsSome(spawned)
    /\ spawned' = None
    /\ cleanup_log'[Len(cleanup_log')].kind = "failed"

\* the positions of the failures in a cleanup log
Failures(log) == {i \in DOMAIN log : log[i].kind = "failed"}

(***************************************************************************)
(* C24: a cleanup callable that fails does not stop the run: the callables *)
(* not yet invoked stay to be invoked, and a cleanup() in which callables  *)
(* failed returns normally after having invoked every registered callable  *)
(* in reverse registration order.                                          *)
(***************************************************************************)
\* the step is a cleanup callable failing, in its call or in its task
CleanupFails == Cardinality(Failures(cleanup_log')) > Cardinality(Failures(cleanup_log))

C24_FailureDoesNotStopRun ==
    [][/\ CleanupFails => cleanup_pc' = "running"
       /\ (cleanup_pc = "running" /\ cleanup_pc' = "idle") =>
             /\ cleanup_log'[Len(cleanup_log')].kind = "returned"
             /\ StartedFns(cleanup_log') = Reversed(coord_op.arg)]_vars

\* what both implementations guarantee: the failure of a callable's task does
\* not stop the run, and a cleanup() that returns has invoked every callable
\* it took, in reverse registration order
TaskFailureIsolated ==
    [][/\ CleanupFnFailed => (functions' = functions /\ cleanup_pc' = "running")
       /\ (cleanup_pc = "running" /\ cleanup_pc' = "idle"
             /\ cleanup_log'[Len(cleanup_log')].kind = "returned") =>
             StartedFns(cleanup_log') = Reversed(coord_op.arg)]_vars

\* the binding's cleanup() goes on after a callable that failed when called
PyCallFailureIsolated ==
    [][(CleanupFails /\ coord_op.name = "py_cleanup") => cleanup_pc' = "running"]_vars

\* cleanup() has returned although the first callable it invoked failed
TaskFailureSurvived ==
    /\ CleanupReturned
    /\ Len(coord_op.arg) = 2
    /\ cleanup_log[2].kind = "failed"
    /\ Len(StartedFns(cleanup_log)) = 2

\* the values of the contributors that did not fail, in the order of the entries
RECURSIVE ValuesInOrder(_)
ValuesInOrder(es) ==
    IF es = <<>> THEN <<>>
    ELSE (IF Head(es).callback.ok THEN <<Head(es).callback.value>> ELSE <<>>)
         \o ValuesInOrder(Tail(es))

(***************************************************************************)
(* C25: collect_contributions(channel) returns the values of the channel's *)
(* contributors in registration order without those whose callback failed, *)
(* calls each contributor of the channel once and no contributor of        *)
(* another channel, and returns the empty sequence for a channel without   *)
(* contributors.                                                           *)
(***************************************************************************)
C25_ContributionsInOrder ==
    coord_op.name = "collect_contributions" =>
       LET channel == coord_op.arg[1]
           es == IF channel \in DOMAIN channels THEN channels[channel] ELSE <<>>
       IN /\ coord_op.ret = ValuesInOrder(es)
          /\ Len(coord_op.called) = Len(es)
          /\ \A i \in DOMAIN coord_op.called : coord_op.called[i] = <<channel, i>>
          /\ es = <<>> => coord_op.ret = <<>>

\* a failing contributor before a succeeding one, and a contributor on another channel
C25_Witness ==
    /\ coord_op.name = "collect_contributions"
    /\ coord_op.arg = <<"events">>
    /\ "events" \in DOMAIN channels /\ "metrics" \in DOMAIN channels
    /\ Len(channels["events"]) = 2
    /\ ~channels["events"][1].callback.ok
    /\ coord_op.ret = <<"ok">>
    /\ Len(coord_op.called) = 2

\* a channel that was never registered is collected
EmptyChannelCollected ==
    /\ coord_op.name = "collect_contributions"
    /\ coord_op.arg[1] \notin DOMAIN channels
    /\ coord_op.ret = <<>>

\* the step is a call of reset_turn(), of the coordinator or of the Python binding
TurnReset ==
    coord_op' # coord_op /\ coord_op'.name \in {"reset_turn", "py_reset_turn"}

(***************************************************************************)
(* C26: reset_turn() sets the per-turn injection counter to zero and       *)
(* leaves the cancellation token as it was: its state, its running tools,  *)
(* its children and its callbacks; a token that was cancelled before       *)
(* reset_turn() is cancelled after it.                                     *)
(***************************************************************************)
C26_ResetTurnKeepsCancellation ==
    [][TurnReset =>
         /\ current_turn_injections' = 0
         /\ (coord_op'.name = "py_reset_turn" => py_current_turn_injections' = 0)
         /\ UNCHANGED <<state, running_tools, running_tool_names, child_tokens,
                        on_cancel_callbacks>>
         /\ is_cancelled(state'[SessionToken]) = is_cancelled(state[SessionToken])]_vars

\* reset_turn() was called on a coordinator whose token is cancelled and in use
C26_Witness ==
    /\ coord_op.name = "reset_turn"
    /\ current_turn_injections = 0
    /\ state[SessionToken] = "Graceful"
    /\ running_tools[SessionToken] # {}
    /\ child_tokens[SessionToken] # <<>>
    /\ on_cancel_callbacks[SessionToken] # <<>>

\* the step is a call of the named coordinator operation
CoordCalled(name) == coord_op' # coord_op /\ coord_op'.name = name

(***************************************************************************)
(* C27: on the multi-slot mount point of the tools, mounting a tool under  *)
(* a name makes get by that name return that tool, unmounting a name makes *)
(* get by that name return none, and no call changes what get returns for  *)
(* another name; so get by name returns the tool most recently mounted     *)
(* under the name and not unmounted since. Unmounting a name that is not   *)
(* mounted returns false, without error, and changes no entry.             *)
(***************************************************************************)
C27_GetReturnsLastMounted ==
    [][/\ CoordCalled("mount_tool") =>
            /\ get_tool(tools', coord_op'.arg[1]) = Some(coord_op'.arg[2])
            /\ \A n \in MountNames \ {coord_op'.arg[1]} : get_tool(tools', n) = get_tool(tools, n)
       /\ CoordCalled("unmount_tool") =>
            /\ get_tool(tools', coord_op'.arg[1]) = None
            /\ \A n \in MountNames \ {coord_op'.arg[1]} : get_tool(tools', n) = get_tool(tools, n)
            /\ coord_op'.ret = Some(get_tool(tools, coord_op'.arg[1]) # None)
            /\ (get_tool(tools, coord_op'.arg[1]) = None => tools' = tools)
       /\ (~CoordCalled("mount_tool") /\ ~CoordCalled("unmount_tool")) => tools' = tools]_vars

\* a name was unmounted while another name holds the tool mounted last under it
C27_Witness ==
    /\ coord_op.name = "unmount_tool"
    /\ coord_op.arg = <<"echo">>
    /\ get_tool(tools, "echo") = None
    /\ get_tool(tools, "search") = Some("tool_v2")

\* the step is an emit on an event that has no handler
EmitWithoutHandlers ==
    /\ pc' = "done"
    /\ entries' = <<>>
    /\ UNCHANGED <<handlers, defaults>>

(***************************************************************************)
(* C28: emit on an event with no registered handler returns the action     *)
(* continue and, as data, the registry's default fields overlaid by the    *)
(* caller's payload. emit returns the caller's payload alone               *)
(* (hooks.rs:169-185): the defaults are merged only further down, when     *)
(* there are handlers (hooks.rs:188-194).                                  *)
(***************************************************************************)
C28_NoHandlersMergesDefaults ==
    [][EmitWithoutHandlers =>
         /\ IsSome(result')
         /\ Unwrap(result').action = "continue"
         /\ Unwrap(result').data =
               Some(value_to_map(MergeDefaults(defaults, emit_data')))]_vars

\* what emit does return without handlers: the action continue and the payload
NoHandlersReturnsPayload ==
    [][EmitWithoutHandlers =>
         /\ IsSome(result')
         /\ Unwrap(result').action = "continue"
         /\ Unwrap(result').data = Some(value_to_map(emit_data'))]_vars

\* the step is the start of an emit on an event that has handlers
EmitBegins == pc # "running" /\ pc' = "running"

\* the step is the invocation of the first handler of an emit
FirstDelivery == calls = <<>> /\ Len(calls') = 1

\* the step is a call of set_default_fields
DefaultsSet == defaults' # defaults

\* the default fields in force, as a map
DefaultsMap == IF IsSome(defaults) /\ Unwrap(defaults).obj THEN Unwrap(defaults).map ELSE EmptyMap

\* the default fields overlaid by the fields of an event
Overlaid(dflt, ev) ==
    [k \in DOMAIN dflt \cup DOMAIN ev |-> IF k \in DOMAIN ev THEN ev[k] ELSE dflt[k]]

(***************************************************************************)
(* C29 as stated: the payload delivered to the first handler of an emit is *)
(* the current default fields overlaid by the event data, every key        *)
(* present in both taking the event's value, and set_default_fields        *)
(* replaces the default fields set before.                                 *)
(***************************************************************************)
C29_DefaultsOverlaid ==
    [][/\ (EmitBegins /\ emit_data'.obj) =>
             current_data' = Obj(Overlaid(DefaultsMap, emit_data'.map))
       /\ FirstDelivery => calls'[1].data = current_data
       /\ DefaultsSet => \E d \in DefaultFields \cup LaterDefaultFields : defaults' = Some(d)]_vars

(***************************************************************************)
(* C29: for an object payload, the payload delivered to the first handler  *)
(* of an emit is the current default fields overlaid by the event data,    *)
(* with the timestamp field then set by the registry: every key other than *)
(* timestamp that is present in both takes the event's value; and          *)
(* set_default_fields replaces the default fields set before.              *)
(***************************************************************************)
C29_DefaultsOverlaidThenStamped ==
    [][/\ (EmitBegins /\ emit_data'.obj) =>
             /\ current_data'.obj
             /\ DOMAIN current_data'.map =
                   DOMAIN DefaultsMap \cup DOMAIN emit_data'.map \cup {"timestamp"}
             /\ \A k \in DOMAIN current_data'.map \ {"timestamp"} :
                   current_data'.map[k] = Overlaid(DefaultsMap, emit_data'.map)[k]
             /\ current_data'.map["timestamp"] = NowRfc3339
       /\ FirstDelivery => calls'[1].data = current_data
       /\ DefaultsSet => \E d \in DefaultFields \cup LaterDefaultFields : defaults' = Some(d)]_vars

\* a first handler has received the default fields of the later set_default_fields
\* and the timestamp of the registry, and no field of the earlier default fields
C29_Witness ==
    /\ Len(calls) >= 1
    /\ defaults = Some(CHOOSE d \in LaterDefaultFields : TRUE)
    /\ emit_data = Obj(EmptyMap)
    /\ DOMAIN calls[1].data.map = {"parent_id", "timestamp"}

\* the ids of the entries of a handler list, in order
Ids(s) == [i \in 1..Len(s) |-> s[i].id]

\* the entries of a handler list without the entry of an id, in order
Without(s, id) == SelectSeq(s, LAMBDA e : e.id # id)

\* the step is the first call of an unregister closure
UnregisterCalled == removed' # removed

\* the step is the start of an emit
EmitCalled == pc # "running" /\ calls' = <<>> /\ pc' \in {"running", "done"} /\ UNCHANGED handlers

(***************************************************************************)
(* C30: the unregister closure returned by register removes exactly the    *)
(* entry that this register call created: every other entry, also one of   *)
(* the same event and the same name, stays where it is, and an emit that   *)
(* starts later invokes every entry then registered on its event.          *)
(***************************************************************************)
C30_UnregisterRemovesOneEntry ==
    [][/\ UnregisterCalled =>
            \E id \in 0..(MaxHandlers - 1) :
               /\ removed' = removed \cup {id}
               /\ id \notin removed
               /\ \A ev \in Events : handlers'[ev] = Without(handlers[ev], id)
               /\ SumLen(handlers', Events) = SumLen(handlers, Events) - 1
       /\ EmitCalled => entries' = handlers[emit_event']
       /\ (pc = "running" /\ pc' = "done") => Ids(calls') = Ids(entries)]_vars

\* one of three entries is unregistered and an emit has invoked the two
\* others, which are on the same event under the same name
C30_Witness ==
    /\ pc = "done"
    /\ next_id = 3
    /\ Cardinality(removed) = 1
    /\ Len(entries) = 2
    /\ \A i \in DOMAIN entries : entries[i].name = "audit" /\ entries[i].id \notin removed
    /\ entries = handlers[emit_event]
    /\ Ids(calls) = Ids(entries)
    /\ \A ev \in Events \ {emit_event} : handlers[ev] = <<>>

(***************************************************************************)
(* PyHookRegistry (lib.rs:825-930): the binding keeps, beside the Rust     *)
(* registry, one unregister closure per handler name.                      *)
(***************************************************************************)
\* the name register gives a handler: the caller's, or a generated one that
\* ends in a fresh uuid (lib.rs:866), modelled by the entry's fresh id
PyHandlerName(event, name, id) ==
    IF IsSome(name) THEN Unwrap(name) ELSE "_auto_" \o event \o "_" \o ToString(id)

\* register (lib.rs:858-880): registers in the Rust registry under the name and
\* stores the returned closure under that name, over whatever was stored there
PyRegister(event, handler, priority, name) ==
    /\ next_id < MaxHandlers
    /\ LET id == next_id
           handler_name == PyHandlerName(event, name, id)
           entry == [handler |-> handler, priority |-> priority,
                     name |-> HandlerName(Some(handler_name), id), id |-> id]
       IN /\ next_id' = next_id + 1
          /\ handlers' = [handlers EXCEPT ![event] = sort_by_key(Append(@, entry))]
          /\ closures' = Append(closures, event)
          /\ unregister_fns' = MapInsert(unregister_fns, handler_name, id)
    /\ UNCHANGED <<defaults, removed, pc, emit_event, emit_data, entries, idx, current_data,
                   special_result, inject_context_results, calls, result, responses>>
    /\ UNCHANGED cancelVars
    /\ UNCHANGED <<sessionVars, coordVars, threadVars>>

\* unregister (lib.rs:920-930): takes the closure stored under the name out of
\* the map and calls it; nothing happens when there is none
PyUnregister(name) ==
    /\ IF name \in DOMAIN unregister_fns
       THEN LET id == unregister_fns[name]
            IN /\ unregister_fns' = MapRemove(unregister_fns, name)
               /\ handlers' = [handlers EXCEPT ![closures[id + 1]] = RetainNotId(@, id)]
               /\ removed' = removed \cup {id}
       ELSE UNCHANGED <<unregister_fns, handlers, removed>>
    /\ UNCHANGED <<defaults, next_id, closures, pc, emit_event, emit_data, entries, idx, current_data,
                   special_result, inject_context_results, calls, result, responses>>
    /\ UNCHANGED cancelVars
    /\ UNCHANGED <<sessionVars, coordVars, threadVars>>

(***************************************************************************)
(* The binding's registry: handlers registered with and without the common *)
(* name, unregistered by name, and dispatched.                             *)
(***************************************************************************)
PyHookNext ==
    \/ \E ev \in Events, p \in Priorities, n \in HandlerNames : PyRegister(ev, "continue", p, n)
    \/ \E n \in DOMAIN unregister_fns \cup {"audit"} : PyUnregister(n)
    \/ \E ev \in Events : EmitStart(ev, Obj(EmptyMap))
    \/ EmitStep

PyHookSpec == Init /\ [][PyHookNext]_vars

(***************************************************************************)
(* C31: a handler registered with a name can be removed exactly once: the  *)
(* first unregister removes it, later ones change nothing. Stated for the  *)
(* binding's unregister(name): when a call finds the name, no handler      *)
(* registered under that name is left in the registry afterwards. The      *)
(* binding keeps one closure per name (lib.rs:874-877), so of two handlers *)
(* registered under one name only the later one is ever removed.           *)
(***************************************************************************)
NamedEntries(hs, n) ==
    UNION { { hs[ev][i].id : i \in { j \in 1..Len(hs[ev]) : hs[ev][j].name = n } } : ev \in Events }

PyUnregisterFound(n) == n \in DOMAIN unregister_fns /\ n \notin DOMAIN unregister_fns'

C31_NamedHandlerRemovedOnce ==
    [][\A n \in DOMAIN unregister_fns :
          PyUnregisterFound(n) => NamedEntries(handlers', n) = {}]_vars

\* what the binding's unregister does remove: the entry registered last under
\* the name, and nothing else
PyUnregisterRemovesLatest ==
    [][\A n \in DOMAIN unregister_fns :
          PyUnregisterFound(n) =>
             /\ \A ev \in Events : handlers'[ev] = Without(handlers[ev], unregister_fns[n])
             /\ NamedEntries(handlers', n) = NamedEntries(handlers, n) \ {unregister_fns[n]}]_vars

\* a handler no unregister can reach any more is still dispatched to
OrphanInvoked ==
    \E i \in 1..Len(calls) :
       /\ calls[i].id \notin removed
       /\ \A n \in DOMAIN unregister_fns : unregister_fns[n] # calls[i].id
       /\ \E j \in 0..(next_id - 1) : j \in removed /\ j > calls[i].id

(***************************************************************************)
(* C32: the handlers an emit invokes are the snapshot it took when it      *)
(* started. A handler registered on the event while the dispatch is in     *)
(* progress is not invoked by that dispatch: the snapshot stays as it was  *)
(* and the handlers invoked are, in order, the snapshot's, all of them     *)
(* unless one denies. An emit that starts later takes the list as it then  *)
(* is, the new handler included.                                           *)
(***************************************************************************)
InvokedFromSnapshot ==
    /\ Len(calls) <= Len(entries)
    /\ \A i \in 1..Len(calls) : calls[i].id = entries[i].id
    /\ (Done /\ calls # <<>>) =>
          (Len(calls) = Len(entries) \/ Returned(Len(calls), "deny"))

\* the step registers a handler on the event being dispatched
RegisteredMidDispatch ==
    /\ pc = "running"
    /\ Len(handlers'[emit_event]) > Len(handlers[emit_event])

\* the step is the start of an emit: no dispatch is in progress, and the step
\* is neither a registration nor a change of the default fields
EmitStarts == pc # "running" /\ UNCHANGED <<handlers, defaults>>

C32_EmitInvokesItsSnapshot ==
    /\ []InvokedFromSnapshot
    /\ [][/\ RegisteredMidDispatch => UNCHANGED <<entries, calls, pc, idx>>
          /\ EmitStarts => entries' = handlers[emit_event']]_vars

\* a dispatch in progress that has invoked a handler, with a handler in the
\* registry that its snapshot does not have
C32_Witness ==
    /\ pc = "running"
    /\ calls # <<>>
    /\ \E i \in 1..Len(handlers[emit_event]) :
          \A j \in 1..Len(entries) : entries[j].id # handlers[emit_event][i].id

\* an emit that started after such a registration has invoked the new handler
LaterEmitInvokes ==
    /\ Done
    /\ Len(calls) = Len(handlers[emit_event])
    /\ Len(calls) = MaxHandlers

(***************************************************************************)
(* emit_and_collect (hooks.rs:274-318): every handler of the snapshot is   *)
(* called with the caller's data under a timeout, and the data of the      *)
(* results that carry some are collected.                                  *)
(***************************************************************************)
\* the handler behaviours registered for collection; "slow" answers after the
\* timeout has expired
CollectKinds == {"continue", "deny", "modify_replace", "modify_insert", "fail", "slow"}

\* tokio::time::timeout(timeout, fut) returns Err for a handler that has not
\* answered in time (hooks.rs:300, 306-309)
TimedOut_Never(kind) == FALSE

TimedOut(kind) == kind = "slow"

\* what a handler is called with: data.clone() (hooks.rs:299)
Delivered_AsEmit(d) == StampTimestamp(MergeDefaults(defaults, d))

Delivered(d) == d

\* the loop (hooks.rs:298-315): a handler that fails or times out is skipped,
\* the data of a result that has some is pushed, and the loop always goes on
RECURSIVE Collect(_, _, _)
Collect(es, event, data) ==
    IF es = <<>> THEN <<>>
    ELSE LET kind == Head(es).handler
             out == Handle(kind, event, Delivered(data))
             pushed == IF ~TimedOut(kind) /\ out.ok /\ IsSome(out.r.data)
                       THEN <<Unwrap(out.r.data)>> ELSE <<>>
         IN pushed \o Collect(Tail(es), event, data)

EmitAndCollect(event, data) ==
    /\ pc # "running"
    /\ emit_event' = event
    /\ emit_data' = data
    /\ entries' = handlers[event]
    /\ calls' = [i \in 1..Len(handlers[event]) |->
                    [id |-> handlers[event][i].id, handler |-> handlers[event][i].handler,
                     priority |-> handlers[event][i].priority, data |-> Delivered(data)]]
    /\ responses' = Collect(handlers[event], event, data)
    /\ pc' = "collected"
    /\ idx' = 1
    /\ current_data' = data
    /\ result' = None
    /\ special_result' = None
    /\ inject_context_results' = <<>>
    /\ UNCHANGED <<handlers, defaults, next_id, closures, removed, unregister_fns>>
    /\ UNCHANGED cancelVars
    /\ UNCHANGED <<sessionVars, coordVars, threadVars>>

(***************************************************************************)
(* Collection: handlers of every collected behaviour registered on one     *)
(* event at two priorities, default fields set, both events collected.     *)
(***************************************************************************)
CollectNext ==
    \/ \E h \in CollectKinds, p \in Priorities : Register("tool:pre", h, p, None)
    \/ \E d \in DefaultFields : SetDefaultFields(d)
    \/ \E ev \in Events, d \in EventData : EmitAndCollect(ev, d)

CollectSpec == Init /\ [][CollectNext]_vars

\* an emit_and_collect has returned
Collected == pc = "collected"

(***************************************************************************)
(* C33: emit_and_collect calls every handler of the event with exactly the *)
(* caller's data: no timestamp is added, no default fields are merged, and *)
(* a handler's modify result does not change what the next handler gets.   *)
(***************************************************************************)
C33_CollectPassesCallersData ==
    Collected =>
       /\ Len(calls) = Len(entries)
       /\ \A i \in 1..Len(calls) : calls[i].id = entries[i].id /\ calls[i].data = emit_data

\* a collection with default fields set whose first handler returned modify
\* with data and was followed by another handler
C33_Witness ==
    /\ Collected
    /\ IsSome(defaults)
    /\ emit_data # Null
    /\ Len(calls) >= 2
    /\ calls[1].handler = "modify_replace"

(***************************************************************************)
(* C34: emit_and_collect returns, in priority order, the data of exactly   *)
(* those handlers that returned a result with data: a handler that fails   *)
(* or times out is skipped, and a deny does not stop the later handlers.   *)
(***************************************************************************)
\* the handlers of a list that answer in time, without error and with data
Answering(es, event, data) ==
    SelectSeq(es, LAMBDA e : /\ e.handler \notin {"fail", "slow"}
                             /\ IsSome(Handle(e.handler, event, data).r.data))

Sorted(es) == \A i, j \in 1..Len(es) : i < j => es[i].priority <= es[j].priority

C34_CollectsDataInPriorityOrder ==
    Collected =>
       /\ Sorted(entries)
       /\ LET a == Answering(entries, emit_event, emit_data)
          IN /\ Len(responses) = Len(a)
             /\ \A i \in 1..Len(a) :
                   responses[i] = Unwrap(Handle(a[i].handler, emit_event, emit_data).r.data)

\* a collection over a handler that denied, one that failed, one that timed
\* out, in which a handler after the deny contributed
C34_Witness ==
    /\ Collected
    /\ Len(entries) = 3
    /\ entries[1].handler = "deny"
    /\ entries[2].handler \in {"fail", "slow"}
    /\ entries[3].handler = "modify_insert"
    /\ Len(responses) = 1

(***************************************************************************)
(* C37: request_graceful, request_immediate, register_child and            *)
(* unregister_child never lower the state of any token: the only changes   *)
(* they make to a token's state are None to Graceful, None to Immediate    *)
(* and Graceful to Immediate.                                              *)
(***************************************************************************)
Raises == { <<"None", "Graceful">>, <<"None", "Immediate">>, <<"Graceful", "Immediate">> }

RaisingOps == {"request_graceful", "request_immediate", "register_child", "unregister_child"}

C37_OperationsOnlyRaise ==
    [][last_op'.op \in RaisingOps =>
          \A t \in TokenIds : state'[t] = state[t] \/ <<state[t], state'[t]>> \in Raises]_vars

\* register_child has just added a child whose state is above the parent's,
\* and the child has kept it
C37_Witness ==
    \E t \in TokenIds :
        /\ last_op = Op("register_child", t, FALSE)
        /\ child_tokens[t] # <<>>
        /\ LET c == child_tokens[t][Len(child_tokens[t])]
           IN c # t /\ StateRank(state[c]) > StateRank(state[t])

(***************************************************************************)
(* C40: the coordinator's cleanup() invokes each registered cleanup        *)
(* callable at most once. It takes every registered callable out of the    *)
(* list when it starts, invokes what it took one by one, each once, and a  *)
(* callable registered from then on stays in the list for the next         *)
(* cleanup(), which so takes only callables registered after this one      *)
(* started.                                                                *)
(***************************************************************************)
\* the step is the start of a cleanup() of the Rust coordinator
CleanupStarts == cleanup_pc = "idle" /\ cleanup_pc' = "running" /\ coord_op'.name = "cleanup"

\* the step is the invocation of a callable by a running cleanup()
CleanupInvokes == cleanup_pc = "running" /\ StartedFns(cleanup_log') # StartedFns(cleanup_log)

\* the step is a register_cleanup
CleanupRegistered == Len(cleanup_functions') > Len(cleanup_functions)

\* the callables a running cleanup() took are those it has invoked and those
\* it still holds, each of them in one place only
TakenOnce == StartedFns(cleanup_log) \o Reversed(functions) = Reversed(coord_op.arg)

C40_CleanupInvokesAtMostOnce ==
    /\ []((cleanup_pc = "running" /\ coord_op.name = "cleanup") => TakenOnce)
    /\ [][/\ CleanupStarts =>
               /\ functions' = cleanup_functions
               /\ coord_op'.arg = cleanup_functions
               /\ cleanup_functions' = <<>>
          /\ CleanupInvokes =>
               /\ functions # <<>>
               /\ functions' = SubSeq(functions, 1, Len(functions) - 1)
               /\ StartedFns(cleanup_log') =
                     Append(StartedFns(cleanup_log), functions[Len(functions)])
               /\ UNCHANGED cleanup_functions
          /\ CleanupRegistered =>
               /\ UNCHANGED <<functions, cleanup_log, coord_op>>
               /\ \E f \in CleanupCallables : cleanup_functions' = Append(cleanup_functions, f)
          /\ (coord_op.name = "cleanup" /\ ~CleanupStarts /\ ~CleanupRegistered
                /\ coord_op'.name = "cleanup") => UNCHANGED cleanup_functions]_vars

\* a cleanup() that took two callables has invoked one of them, and a callable
\* registered since it started is waiting in the list
C40_Witness ==
    /\ cleanup_pc = "running"
    /\ coord_op.name = "cleanup"
    /\ Len(coord_op.arg) = 2
    /\ Len(StartedFns(cleanup_log)) = 1
    /\ cleanup_functions # <<>>

(***************************************************************************)
(* The token's operations step by step (cancellation.rs:146-179, 232-287). *)
(* A token is an Arc<Mutex<Inner>> shared between tasks: every operation   *)
(* locks the Mutex for each of its critical sections, and what it does     *)
(* between them interleaves with the operations of other threads. A call   *)
(* is a frame on its thread's stack; a step moves the innermost frame.     *)
(***************************************************************************)
Poisoned == 0 - 1     \* a Mutex whose holder panicked: lock().unwrap() panics from then on

Frame(op, t, arg) ==
    [op |-> op, token |-> t, pc |-> "enter", arg |-> arg, cur |-> "None", rest |-> <<>>]

Top(th) == stacks[th][Len(stacks[th])]

SetTop(s, f) == [s EXCEPT ![Len(s)] = f]

Pop(s) == SubSeq(s, 1, Len(s) - 1)

\* the innermost frame of the thread is a call of one of the operations
Running(th, ops) == stacks[th] # <<>> /\ Top(th).op \in ops

\* the frame is about to lock its token's Mutex
AtLock(f) == f.pc \in {"enter", "push"}

\* the callbacks registered for triggering. A callback is a function that
\* returns a future (cancellation.rs:59-60): one whose future completes, one
\* whose future panics (cancellation.rs:481-485), one whose function reads the
\* token before it returns its future, one whose function panics
TriggerCallbackIds == {"cb_a", "cb_panics", "cb_reads", "cb_panics_early"}

Panics(cb) == cb = "cb_panics"

TouchesToken(cb) == cb = "cb_reads"

FunctionPanics(cb) == cb = "cb_panics_early"

\* a task calls an operation of a token
Call(th, op, t, arg) ==
    /\ stacks[th] = <<>>
    /\ op = "register_child" =>
          Links + Cardinality({x \in Threads : Running(x, {"register_child"})}) < MaxLinks
    /\ stacks' = [stacks EXCEPT ![th] = <<Frame(op, t, arg)>>]
    /\ callback_log' = IF op = "trigger_callbacks"
                       THEN [callback_log EXCEPT ![th] = NoCallbacks] ELSE callback_log
    /\ UNCHANGED locks
    /\ UNCHANGED cancelVars
    /\ UNCHANGED hookVars
    /\ UNCHANGED <<sessionVars, coordVars>>

\* mutant: the guard is kept until the children have been called
HeldAcrossChildren_Kept(th) == th

\* cancellation.rs:153, 171: drop(inner) before the children are called
HeldAcrossChildren(th) == 0

\* request_graceful / request_immediate (cancellation.rs:146-179): under the
\* lock the state is tested and set and the children are cloned; the children
\* are then called one after the other
RequestStep(th) ==
    /\ Running(th, {"request_graceful", "request_immediate"})
    /\ LET f == Top(th)
           t == f.token
           graceful == f.op = "request_graceful"
           applies == IF graceful THEN GracefulApplies(state[t]) ELSE ImmediateApplies(state[t])
       IN IF f.pc = "enter"
          THEN /\ locks[t] = 0
               /\ IF applies
                  THEN /\ state' = [state EXCEPT ![t] = IF graceful THEN "Graceful" ELSE "Immediate"]
                       /\ locks' = [locks EXCEPT ![t] = HeldAcrossChildren(th)]
                       /\ stacks' = [stacks EXCEPT ![th] =
                                        SetTop(@, [f EXCEPT !.pc = "children",
                                                            !.rest = child_tokens[t]])]
                  ELSE /\ stacks' = [stacks EXCEPT ![th] = Pop(@)]
                       /\ UNCHANGED <<state, locks>>
          ELSE IF f.rest = <<>>
          THEN /\ stacks' = [stacks EXCEPT ![th] = Pop(@)]
               /\ locks' = [locks EXCEPT ![t] = IF @ = th THEN 0 ELSE @]
               /\ UNCHANGED state
          ELSE /\ stacks' = [stacks EXCEPT ![th] =
                                Append(SetTop(@, [f EXCEPT !.rest = Tail(@)]),
                                       Frame(f.op, Head(f.rest), None))]
               /\ UNCHANGED <<state, locks>>
    /\ UNCHANGED <<running_tools, running_tool_names, child_tokens, on_cancel_callbacks, last_op>>
    /\ UNCHANGED callback_log
    /\ UNCHANGED hookVars
    /\ UNCHANGED <<sessionVars, coordVars>>

\* register_child (cancellation.rs:232-249): the parent's state is read under
\* the lock, the lock is released, the child is brought to that state, and the
\* child is pushed under the lock taken again
RegisterChildStep(th) ==
    /\ Running(th, {"register_child"})
    /\ LET f == Top(th)
           t == f.token
           child == Unwrap(f.arg)
       IN CASE f.pc = "enter" ->
                 /\ locks[t] = 0
                 /\ stacks' = [stacks EXCEPT ![th] =
                                  SetTop(@, [f EXCEPT !.pc = "propagate", !.cur = state[t]])]
                 /\ UNCHANGED child_tokens
            [] f.pc = "propagate" ->
                 /\ stacks' = [stacks EXCEPT ![th] =
                      LET s == SetTop(@, [f EXCEPT !.pc = "push"])
                      IN CASE f.cur = "Graceful"  -> Append(s, Frame("request_graceful", child, None))
                           [] f.cur = "Immediate" -> Append(s, Frame("request_immediate", child, None))
                           [] f.cur = "None"      -> s]
                 /\ UNCHANGED child_tokens
            [] f.pc = "push" ->
                 /\ locks[t] = 0
                 /\ child_tokens' = [child_tokens EXCEPT ![t] = Append(@, child)]
                 /\ stacks' = [stacks EXCEPT ![th] = Pop(@)]
    /\ UNCHANGED <<state, running_tools, running_tool_names, on_cancel_callbacks, last_op>>
    /\ UNCHANGED <<locks, callback_log>>
    /\ UNCHANGED hookVars
    /\ UNCHANGED <<sessionVars, coordVars>>

\* is_cancelled (cancellation.rs:129-131): reads the state under the lock
IsCancelledStep(th) ==
    /\ Running(th, {"is_cancelled"})
    /\ locks[Top(th).token] = 0
    /\ stacks' = [stacks EXCEPT ![th] = Pop(@)]
    /\ UNCHANGED <<locks, callback_log>>
    /\ UNCHANGED cancelVars
    /\ UNCHANGED hookVars
    /\ UNCHANGED <<sessionVars, coordVars>>

\* mutant: the loop over the futures ends at the first one that panicked
AwaitContinues_OkOnly(panicked) == ~panicked

\* cancellation.rs:279-285: the JoinError of a panicked task is printed and the
\* loop goes on
AwaitContinues(panicked) == TRUE

\* trigger_callbacks (cancellation.rs:268-287): under the lock every registered
\* callback function is called and the future it returns is kept; the lock is
\* released; the futures are spawned and awaited one after the other
TriggerStep(th) ==
    /\ Running(th, {"trigger_callbacks"})
    /\ LET f == Top(th)
           t == f.token
           log == callback_log[th]
       IN CASE f.pc = "enter" ->
                 /\ locks[t] = 0
                 /\ locks' = [locks EXCEPT ![t] = th]
                 /\ stacks' = [stacks EXCEPT ![th] =
                                  SetTop(@, [f EXCEPT !.pc = "calling",
                                                      !.rest = on_cancel_callbacks[t]])]
                 /\ callback_log' = [callback_log EXCEPT
                                        ![th] = [log EXCEPT !.snapshot = on_cancel_callbacks[t]]]
            [] f.pc = "calling" /\ f.rest # <<>> /\ ~FunctionPanics(Head(f.rest)) ->
                 /\ stacks' = [stacks EXCEPT ![th] =
                      LET s == SetTop(@, [f EXCEPT !.rest = Tail(@)])
                      IN IF TouchesToken(Head(f.rest))
                         THEN Append(s, Frame("is_cancelled", t, None)) ELSE s]
                 /\ callback_log' = [callback_log EXCEPT
                                        ![th] = [log EXCEPT !.called = Append(@, Head(f.rest))]]
                 /\ UNCHANGED locks
            [] f.pc = "calling" /\ f.rest # <<>> /\ FunctionPanics(Head(f.rest)) ->
                 \* the panic leaves trigger_callbacks through the map under the guard
                 /\ stacks' = [stacks EXCEPT ![th] = <<>>]
                 /\ callback_log' = [callback_log EXCEPT
                                        ![th] = [log EXCEPT !.called = Append(@, Head(f.rest))]]
                 /\ locks' = [locks EXCEPT ![t] = Poisoned]
            [] f.pc = "calling" /\ f.rest = <<>> ->
                 /\ locks' = [locks EXCEPT ![t] = 0]
                 /\ stacks' = [stacks EXCEPT ![th] =
                                  SetTop(@, [f EXCEPT !.pc = "awaiting", !.rest = log.snapshot])]
                 /\ UNCHANGED callback_log
            [] f.pc = "awaiting" /\ f.rest # <<>> ->
                 /\ stacks' = [stacks EXCEPT ![th] =
                                  SetTop(@, [f EXCEPT !.rest = IF AwaitContinues(Panics(Head(f.rest)))
                                                               THEN Tail(@) ELSE <<>>])]
                 /\ callback_log' = [callback_log EXCEPT
                      ![th] = [log EXCEPT !.outcomes =
                                  Append(@, [cb |-> Head(f.rest), panicked |-> Panics(Head(f.rest))])]]
                 /\ UNCHANGED locks
            [] f.pc = "awaiting" /\ f.rest = <<>> ->
                 /\ stacks' = [stacks EXCEPT ![th] = Pop(@)]
                 /\ callback_log' = [callback_log EXCEPT ![th] = [log EXCEPT !.returned = TRUE]]
                 /\ UNCHANGED locks
    /\ UNCHANGED cancelVars
    /\ UNCHANGED hookVars
    /\ UNCHANGED <<sessionVars, coordVars>>

\* lock().unwrap() on a Mutex the thread itself holds does not return: it
\* blocks for ever or panics; on a poisoned Mutex it panics. The panic unwinds
\* the thread's calls and poisons the Mutexes whose guards it drops.
LockPanics(th) ==
    /\ stacks[th] # <<>>
    /\ AtLock(Top(th))
    /\ locks[Top(th).token] \in {th, Poisoned}
    /\ stacks' = [stacks EXCEPT ![th] = <<>>]
    /\ locks' = [t \in TokenIds |-> IF locks[t] = th THEN Poisoned ELSE locks[t]]
    /\ UNCHANGED callback_log
    /\ UNCHANGED cancelVars
    /\ UNCHANGED hookVars
    /\ UNCHANGED <<sessionVars, coordVars>>

(***************************************************************************)
(* Two tasks that request cancellation and register children on two tokens *)
(* whose child lists may hold each other and themselves.                   *)
(***************************************************************************)
LockTokens == {1, 2}

LockNext ==
    \/ \E th \in Threads, t \in LockTokens, op \in {"request_graceful", "request_immediate"} :
          Call(th, op, t, None)
    \/ \E th \in Threads, t \in LockTokens, c \in LockTokens : Call(th, "register_child", t, Some(c))
    \/ \E th \in Threads : RequestStep(th)
    \/ \E th \in Threads : RegisterChildStep(th)

LockSpec == Init /\ [][LockNext]_vars

(***************************************************************************)
(* Two tasks that request cancellation on tokens whose children are        *)
(* registered between their steps. A thread that can take a step of its    *)
(* call eventually takes it.                                               *)
(***************************************************************************)
RequestNext ==
    \/ \E th \in Threads, t \in LockTokens, op \in {"request_graceful", "request_immediate"} :
          Call(th, op, t, None)
    \/ \E th \in Threads : RequestStep(th)
    \/ \E t \in LockTokens, c \in LockTokens : RegisterChild(t, c)

RequestFairSpec ==
    Init /\ [][RequestNext]_vars /\ \A th \in Threads : WF_vars(RequestStep(th))

(***************************************************************************)
(* Two tasks that register callbacks on a token, trigger them and read the *)
(* token.                                                                  *)
(***************************************************************************)
CallbackNext ==
    \/ \E cb \in TriggerCallbackIds : OnCancel(1, cb)
    \/ \E th \in Threads, op \in {"trigger_callbacks", "is_cancelled"} : Call(th, op, 1, None)
    \/ \E th \in Threads : TriggerStep(th)
    \/ \E th \in Threads : IsCancelledStep(th)
    \/ \E th \in Threads : LockPanics(th)

CallbackSpec == Init /\ [][CallbackNext]_vars

(***************************************************************************)
(* C36: request_graceful and request_immediate do not hold the token's     *)
(* lock while they call into the children, so every call returns, whatever *)
(* the child graph: cycles and a token that is its own child included.     *)
(***************************************************************************)
RequestOps == {"request_graceful", "request_immediate"}

\* no thread holds the lock of a token whose children it is calling
NoLockAcrossChildren ==
    \A th \in Threads : \A i \in 1..Len(stacks[th]) :
       (stacks[th][i].op \in RequestOps /\ stacks[th][i].pc = "children") =>
          locks[stacks[th][i].token] # th

C36_RequestsReturn ==
    /\ []NoLockAcrossChildren
    /\ \A th \in Threads : (stacks[th] # <<>>) ~> (stacks[th] = <<>>)

\* a request has come back, through the children, to a token it is already
\* propagating from
C36_Witness ==
    \E th \in Threads : \E i, j \in 1..Len(stacks[th]) :
       /\ i < j
       /\ stacks[th][i].op \in RequestOps
       /\ stacks[th][j].op \in RequestOps
       /\ stacks[th][i].pc = "children"
       /\ stacks[th][j].token = stacks[th][i].token

\* the depth of a thread's calls is bounded by the number of tokens
BoundedDepth == \A th \in Threads : Len(stacks[th]) <= Cardinality(LockTokens) + 2

(***************************************************************************)
(* C38: when p.register_child(c) runs concurrently with a request of       *)
(* cancellation on p from another task, then once both calls have returned *)
(* c's state is at least p's. Stated over all calls of the two tasks: when *)
(* no call is in progress, every registered child is at least as cancelled *)
(* as its parent. register_child reads the parent's state, releases the    *)
(* lock and pushes the child later (cancellation.rs:233-248): a request    *)
(* that runs in between sees neither the child nor is seen by it.          *)
(***************************************************************************)
Quiescent == \A th \in Threads : stacks[th] = <<>>

C38_ChildAtLeastParent ==
    Quiescent =>
       \A p \in LockTokens : \A i \in 1..Len(child_tokens[p]) :
          StateRank(state[child_tokens[p][i]]) >= StateRank(state[p])

\* what register_child does establish: the child is at least in the state the
\* parent had when register_child read it
ChildAtLeastStateRead ==
    [][\A th \in Threads :
          (Running(th, {"register_child"}) /\ Top(th).pc = "push" /\ stacks'[th] = <<>>) =>
             StateRank(state'[Unwrap(Top(th).arg)]) >= StateRank(Top(th).cur)]_vars

(***************************************************************************)
(* C35: trigger_callbacks invokes every callback registered before the     *)
(* call exactly once, in registration order; a callback that panics does   *)
(* not prevent the later ones from running, and trigger_callbacks itself   *)
(* completes normally. Stated on the log of every call: what was called    *)
(* and what was awaited are the callbacks found, from the first on and in  *)
(* order, and a call that is no longer in progress has returned after      *)
(* calling and awaiting them all. Only a panic of the future is isolated   *)
(* (cancellation.rs:279-285): the callback function is called under the    *)
(* lock, outside any task (cancellation.rs:270-277).                       *)
(***************************************************************************)
IsPrefix(s, t) == Len(s) <= Len(t) /\ \A i \in 1..Len(s) : s[i] = t[i]

Awaited_Cbs(log) == [i \in 1..Len(log.outcomes) |-> log.outcomes[i].cb]

InOrderOnce(log) ==
    /\ IsPrefix(log.called, log.snapshot)
    /\ IsPrefix(Awaited_Cbs(log), log.snapshot)
    /\ log.returned => (log.called = log.snapshot /\ Awaited_Cbs(log) = log.snapshot)

\* the step is trigger_callbacks taking its snapshot
TriggerEnters(th) ==
    /\ Running(th, {"trigger_callbacks"})
    /\ Top(th).pc = "enter"
    /\ stacks'[th] # stacks[th]
    /\ stacks'[th] # <<>>

C35_EveryCallbackOnceDespitePanics ==
    \A th \in Threads :
       /\ InOrderOnce(callback_log[th])
       /\ (stacks[th] = <<>> /\ callback_log[th].snapshot # <<>>) => callback_log[th].returned

\* what trigger_callbacks does guarantee: the callbacks found are those
\* registered when it took the lock, they are called and awaited in that
\* order, each once, and the panic of a future does not end the loop
TriggerIsolatesFuturePanics ==
    /\ [](\A th \in Threads : InOrderOnce(callback_log[th]))
    /\ [][\A th \in Threads :
            TriggerEnters(th) =>
               callback_log'[th].snapshot = on_cancel_callbacks[Top(th).token]]_vars

\* a trigger_callbacks has returned after the future of its first callback
\* panicked and that of its second completed
FuturePanicIsolated ==
    \E th \in Threads :
       /\ callback_log[th].returned
       /\ callback_log[th].snapshot = <<"cb_panics", "cb_a">>
       /\ callback_log[th].outcomes[1].panicked
       /\ ~callback_log[th].outcomes[2].panicked

(***************************************************************************)
(* C39: trigger_callbacks does not hold the token's lock at the moment it  *)
(* calls a registered callback function, so a callback that reads or       *)
(* changes the same token cannot deadlock it: no thread is about to call a *)
(* callback function of a token whose lock it holds, and no thread waits   *)
(* for a lock it holds itself. The functions are called inside the block   *)
(* that holds the guard (cancellation.rs:270-277); only the futures they   *)
(* return are awaited after it.                                            *)
(***************************************************************************)
CallingUnderLock(th) ==
    \E i \in 1..Len(stacks[th]) :
       /\ stacks[th][i].op = "trigger_callbacks"
       /\ stacks[th][i].pc = "calling"
       /\ stacks[th][i].rest # <<>>
       /\ locks[stacks[th][i].token] = th

WaitsForOwnLock(th) ==
    /\ stacks[th] # <<>>
    /\ AtLock(Top(th))
    /\ locks[Top(th).token] = th

C39_CallbackCalledUnlocked ==
    \A th \in Threads : ~CallingUnderLock(th) /\ ~WaitsForOwnLock(th)

\* what does hold: the lock is not held while the futures are awaited
FuturesAwaitedUnlocked ==
    \A th \in Threads : \A i \in 1..Len(stacks[th]) :
       (stacks[th][i].op = "trigger_callbacks" /\ stacks[th][i].pc = "awaiting") =>
          locks[stacks[th][i].token] # th

\* a callback function that reads the token has been called by
\* trigger_callbacks and waits for the lock its caller holds
CallbackWaitsForTrigger ==
    \E th \in Threads :
       /\ Len(stacks[th]) = 2
       /\ stacks[th][1].op = "trigger_callbacks"
       /\ Top(th).op = "is_cancelled"
       /\ WaitsForOwnLock(th)

====
